---- MODULE Spec2Model ----
(***************************************************************************)
(* Op-graph synchronisation of hyperhyperspace-core: the terminal-ops sync *)
(* agent (TerminalOpsSyncAgent.ts), the state gossip agent                 *)
(* (StateGossipAgent, found in UndoOp.ts) and the literal context          *)
(* (Context, found in playground.html), over a small universe of hashed    *)
(* objects.                                                                *)
(***************************************************************************)
EXTENDS Naturals, Integers, Sequences, FiniteSets, TLC

(***************************************************************************)
(* Bounds of the model.                                                    *)
(***************************************************************************)
MaxTime == 2            \* the clock stops advancing here
MaxSecret == 4          \* request secrets one agent may draw
MaxForged == 2          \* messages the environment may inject
MaxFailures == 4        \* calls of receiveRemoteState that may throw in a row
MaxStates == 52         \* states an agent may publish one after the other

(***************************************************************************)
(* Time is counted in ticks of 2500 ms.  The interval callback runs every  *)
(* 5000 ms.  The three timeouts are constructor parameters, in seconds     *)
(* (60, 90 and 3600 when none are given); the agents here are constructed  *)
(* with 2.5 s for each, so that a timeout can pass between two callbacks.  *)
(***************************************************************************)
SweepPeriod == 2
SendTimeout == 1
ReceiveTimeout == 1
IncompleteOpTimeout == 1

(***************************************************************************)
(* The universe of hashed objects.  A hash stands for the literal it is    *)
(* the hash of.  a, b, c are mutation ops on the synchronised object;      *)
(* c has a and b as prevOps.  d is an op on it that only peers of the      *)
(* environment hold, with c as prevOp.  x is an op on another mutable      *)
(* object.                                                                 *)
(* p is a subobject of a; I is an identity referenced by b; S is an object *)
(* unrelated to the synchronised one, referenced by x only.                *)
(***************************************************************************)
ObjHash == "T"
OtherObjHash == "T2"
Ops == {"a", "b", "c"}
Hashes == {"a", "b", "c", "d", "x", "p", "I", "S"}
Order == <<"a", "b", "c", "d", "x", "p", "I", "S">>
AcceptedMutationOpClasses == {"SomeMutation"}

ClassOf(h) ==
  IF h \in {"a", "b", "c", "d", "x"} THEN "SomeMutation" ELSE "Data"

\* op.targetObject?.hash(): undefined for an object that is no op
TargetOf(h) ==
  IF h \in Ops \cup {"d"} THEN ObjHash
  ELSE IF h = "x" THEN OtherObjHash ELSE "none"

Dep(h, t) == [hash |-> h, type |-> t]

\* literal.dependencies
Dependencies(h) ==
  CASE h = "a" -> <<Dep("p", "literal")>>
    [] h = "b" -> <<Dep("I", "reference")>>
    [] h = "c" -> <<Dep("a", "reference"), Dep("b", "reference")>>
    [] h = "d" -> <<Dep("c", "reference")>>
    [] h = "x" -> <<Dep("S", "reference")>>
    [] OTHER   -> <<>>

Range(s) == {s[i] : i \in 1..Len(s)}

DepHashes(h) == {d.hash : d \in Range(Dependencies(h))}

PrevOps(h) == IF h = "c" THEN {"a", "b"} ELSE IF h = "d" THEN {"c"} ELSE {}

Pos(h) == CHOOSE i \in 1..Len(Order) : Order[i] = h

\* the elements of a set of hashes, in the order of Order
RECURSIVE SeqOf(_)
SeqOf(S) ==
  IF S = {} THEN <<>>
  ELSE LET h == CHOOSE x \in S : \A y \in S : Pos(x) <= Pos(y)
       IN  <<h>> \o SeqOf(S \ {h})

\* the subobjects an object's literal embeds, transitively, and itself
RECURSIVE SubClosure(_)
SubClosure(h) ==
  {h} \cup UNION {SubClosure(d.hash) :
                     d \in {e \in Range(Dependencies(h)) : e.type = "literal"}}

\* HashedObject.hash(seed): the hash of the value under a secret
HashWith(h, secret) == <<h, secret>>

\* undefined, where a hash is expected and where a state object is expected
NoHash == <<>>

NoState == [mutableObj |-> "undefined", terminalOps |-> {}, wellFormed |-> FALSE]

(***************************************************************************)
(* Nodes run a sync agent and a gossip agent; the endpoints of Env are     *)
(* peers whose messages are chosen by the environment.                     *)
(***************************************************************************)
Nodes == {"A", "B"}
Env == {"V", "W", "X", "Y", "Z"}
Forgers == {"X", "Y", "Z"}
Endpoints == Nodes \cup Env
SyncAgentId == "terminal-ops-for-T"
GossipAgentId == "state-gossip-agent-for-T"

VARIABLES
  now,                 \* Date.now(), in ticks
  nextSweep,           \* per node: when the setInterval callback is next due
  running,             \* nodes whose agents are started and not shut down
  peers,               \* per node: PeerGroupAgent.getPeers()
  store,               \* per node: hashes of the literals persisted
  terminalOps,         \* per node: the store's terminal ops of ObjHash
  pendingCallbacks,    \* per node: watchReferences callbacks not yet run
  stateHash,           \* per node: TerminalOpsSyncAgent.stateHash
  incomingObjects,     \* per node: TerminalOpsSyncAgent.incomingObjects
  outgoingObjects,     \* per node: TerminalOpsSyncAgent.outgoingObjects
  incompleteOps,       \* per node: TerminalOpsSyncAgent.incompleteOps
  opsForMissingObj,    \* per node: TerminalOpsSyncAgent.opsForMissingObj
  secretCtr,           \* per node: secrets drawn so far
  localState,          \* per node: StateGossipAgent.localState
  remoteState,         \* per node: StateGossipAgent.remoteState
  previousStatesCache, \* per node: StateGossipAgent.previousStatesCache
  net,                 \* messages in flight between nodes, FIFO per pair
  sent,                \* messages the last step sent to endpoints of Env
  uncreated,           \* ops no node has created yet
  forged,              \* messages the environment has injected so far
  failedSaves,         \* per node: ops store.save rejected (MissingDependency)
  everIncomplete,      \* per node: ops ever stashed as incomplete, with deadline
  handled,             \* the peer message the last step handled, if any
  informed,            \* per node: peers sent the state object of localState
  notified,            \* the last step's calls of receiveRemoteState by the
                       \* gossip agent, and how many of them were to throw
  inFlight,            \* per node: the states read by the store callbacks
                       \* that have not yet compared them with stateHash
  emitted,             \* the agent-state-update events of the last step
  lastEvent,           \* per node: the state hash of its last such event
  unhandled,           \* the promises the last step left rejected with no
                       \* handler, by the call that rejected
  persisting,          \* the incomplete ops the last step found complete,
                       \* the objects it called store.save for, and those
                       \* processReceivedObject went on with after the save
  trackedAgentIds,     \* per node: StateGossipAgent.trackedAgentIds
  localStateObjects,   \* per node: StateGossipAgent.localStateObjects
  remoteStateObjects,  \* per node: StateGossipAgent.remoteStateObjects
  validating,          \* per node: the state objects received whose
                       \* validation has not yet returned
  workers,             \* per process sharing an IndexedDB database: the
                       \* static fields of WorkerSafeIdbBackend, the backends
                       \* constructed, the messages its store calls have yet
                       \* to post, the messages its channels have yet to hand
                       \* to onmessage, and the store callbacks fired
  stored,              \* the calls of WorkerSafeIdbBackend.store so far
  replicaOps,          \* per replica of a PermissionTest object: its ops
  conn,                \* a WebRTCConnection: its messageCallback, its
                       \* incomingMessages, the messages its channel has
                       \* received and the calls of callbacks so far
  constructed          \* the calls of the constructor of UndoOp so far

syncVars == <<now, nextSweep, running, peers, store, terminalOps, pendingCallbacks,
          stateHash, incomingObjects, outgoingObjects, incompleteOps,
          opsForMissingObj, secretCtr, localState, remoteState,
          previousStatesCache, net, sent, uncreated, forged, failedSaves,
          everIncomplete, handled, informed, notified, inFlight, emitted,
          lastEvent, unhandled, persisting, trackedAgentIds,
          localStateObjects, remoteStateObjects, validating>>

workerVars == <<workers, stored>>

otherVars == <<conn, constructed>>

vars == <<syncVars, workerVars, replicaOps, otherVars>>

\* as Watching, but the watch outlives the shutdown of the agent
StillWatching(n) == TRUE

\* watchStoreForOps / unwatchStoreForOps: the store holds the watch of the
\* agent of node n from ready to shutdown
Watching(n) == n \in running

(***************************************************************************)
(* A handler works on the record of one node's state and returns it        *)
(* changed; out collects the messages it sends.                            *)
(***************************************************************************)
NodeState(n, gossipTo) ==
  [self |-> n, now |-> now, peers |-> peers[n], gossipTo |-> gossipTo,
   watching |-> Watching(n),
   store |-> store[n], terminalOps |-> terminalOps[n],
   pendingCallbacks |-> pendingCallbacks[n], stateHash |-> stateHash[n],
   incomingObjects |-> incomingObjects[n],
   outgoingObjects |-> outgoingObjects[n],
   incompleteOps |-> incompleteOps[n],
   opsForMissingObj |-> opsForMissingObj[n], secretCtr |-> secretCtr[n],
   localState |-> localState[n], remoteState |-> remoteState[n],
   previousStatesCache |-> previousStatesCache[n],
   trackedAgentIds |-> trackedAgentIds[n],
   localStateObjects |-> localStateObjects[n],
   remoteStateObjects |-> remoteStateObjects[n],
   validating |-> validating[n],
   failedSaves |-> failedSaves[n], everIncomplete |-> everIncomplete[n],
   failures |-> 0, attempts |-> 0,
   inFlight |-> inFlight[n], events |-> <<>>, unhandled |-> {},
   completed |-> <<>>, saveCalls |-> <<>>, processed |-> <<>>,
   out |-> <<>>, threw |-> FALSE]

\* PeeringAgentBase.sendMessageToPeer
SendMessageToPeer(ns, dest, agentId, msg) ==
  [ns EXCEPT !.out = Append(@, [to |-> dest, agentId |-> agentId, content |-> msg])]

\* TerminalOpsState.create and its hash
StateObject(tops) ==
  [mutableObj |-> ObjHash, terminalOps |-> tops, wellFormed |-> TRUE]

HashOfState(st) == <<"TerminalOpsState", st.mutableObj, st.terminalOps>>

StateOfHash(h) == [mutableObj |-> h[2], terminalOps |-> h[3], wellFormed |-> TRUE]

\* as ShouldAcceptMutationOp, but the target is not compared
AcceptsAnyTarget(h) == ClassOf(h) \in AcceptedMutationOpClasses

ShouldAcceptMutationOp(h) ==
  ObjHash = TargetOf(h) /\ ClassOf(h) \in AcceptedMutationOpClasses

(***************************************************************************)
(* Store, by the contract the agents rely on.                              *)
(***************************************************************************)
\* every reference of the objects saved is held already, every subobject
\* is at hand
CanSave(st, h, ctx) ==
  \A o \in SubClosure(h) :
      /\ o \in st \cup ctx.literals \cup ctx.objects
      /\ \A d \in Range(Dependencies(o)) :
            d.type = "reference" => d.hash \in st

\* as AdvanceTerminalOps, but the prevOps stay terminal
KeepPrevOps(tops, h) == tops \cup {h}

\* terminalOps := (terminalOps + {op}) - op.prevOps
AdvanceTerminalOps(tops, h) == (tops \cup {h}) \ PrevOps(h)

\* store.save(obj): idempotent by hash; fails on a missing dependency;
\* a new op on a watched target schedules the watchReferences callback
StoreSave(ns, h, ctx) ==
  IF h \in ns.store THEN ns
  ELSE IF ~CanSave(ns.store, h, ctx)
  THEN [ns EXCEPT !.failedSaves = @ \cup {h}, !.threw = TRUE]
  ELSE [ns EXCEPT
          !.store = @ \cup SubClosure(h),
          !.terminalOps = IF TargetOf(h) = ObjHash
                          THEN AdvanceTerminalOps(@, h) ELSE @,
          !.pendingCallbacks = IF TargetOf(h) = ObjHash /\ ns.watching
                               THEN Append(@, h) ELSE @]

(***************************************************************************)
(* TerminalOpsSyncAgent: requesting objects.                               *)
(***************************************************************************)
Movement(h, ep, chain, secret, timeout) ==
  [hash |-> h, endpoint |-> ep, dependencyChain |-> chain,
   secret |-> secret, timeout |-> timeout]

\* insertObjectMovement
InsertObjectMovement(all, ep, h, chain, secret, timeout, t) ==
  IF \E m \in all : m.hash = h /\ m.endpoint = ep
  THEN [inserted |-> FALSE, movements |-> all]
  ELSE [inserted |-> TRUE,
        movements |-> all \cup {Movement(h, ep, chain, secret, t + timeout)}]

\* as MayRequest, but a third pending request is let through
MayRequestThird(alreadyRequested, pendingReqs) ==
  ~alreadyRequested /\ pendingReqs <= 2

\* the test of sendRequestObjsMessage before it registers a request
MayRequest(alreadyRequested, pendingReqs) ==
  ~alreadyRequested /\ pendingReqs < 2

\* the loop of sendRequestObjsMessage; acc is [incoming, newReqs]
RECURSIVE RequestLoop(_, _, _, _, _)
RequestLoop(acc, dest, reqs, secret, t) ==
  IF reqs = <<>> THEN acc
  ELSE LET req == Head(reqs)
           alreadyRequested ==
             \E m \in acc.incoming : m.hash = req.hash /\ m.endpoint = dest
           pendingReqs ==
             Cardinality({m.endpoint : m \in {k \in acc.incoming : k.hash = req.hash}})
           ins == InsertObjectMovement(acc.incoming, dest, req.hash,
                                       req.dependencyChain, secret,
                                       ReceiveTimeout, t)
           next == IF MayRequest(alreadyRequested, pendingReqs) /\ ins.inserted
                   THEN [incoming |-> ins.movements,
                         newReqs |-> Append(acc.newReqs, req)]
                   ELSE acc
       IN  RequestLoop(next, dest, Tail(reqs), secret, t)

RequestObjsMessage(reqs, secret) ==
  [type |-> "request-objs", targetObjHash |-> ObjHash,
   requestedObjects |-> reqs, ownershipProofSecret |-> secret]

\* sendRequestObjsMessage
SendRequestObjsMessage(ns, dest, reqs) ==
  LET secret == <<ns.self, ns.secretCtr + 1>>
      r == RequestLoop([incoming |-> ns.incomingObjects, newReqs |-> <<>>],
                       dest, reqs, secret, ns.now)
  IN  IF Len(r.newReqs) > 0
      THEN SendMessageToPeer(
             [ns EXCEPT !.incomingObjects = r.incoming, !.secretCtr = @ + 1],
             dest, SyncAgentId, RequestObjsMessage(r.newReqs, secret))
      ELSE ns

ObjectRequest(h, chain) == [hash |-> h, dependencyChain |-> chain]

\* sendRequestStateMessage
SendRequestStateMessage(ns, dest) ==
  SendMessageToPeer(ns, dest, SyncAgentId,
                    [type |-> "request-state", targetObjHash |-> ObjHash])

\* sendState
SendState(ns, ep) ==
  IF ns.stateHash # NoHash
  THEN SendMessageToPeer(ns, ep, SyncAgentId,
         [type |-> "send-state", targetObjHash |-> ObjHash,
          state |-> StateOfHash(ns.stateHash)])
  ELSE ns

(***************************************************************************)
(* TerminalOpsSyncAgent: sending objects.                                  *)
(***************************************************************************)
\* as ChainLinkMatches, but any held literal passes
ChainLinkUnchecked(depHash, opHash) == TRUE

\* as ChainLinkMatches, but the link is read downwards: the literal of
\* opHash lists depHash
ChainLinkDescends(depHash, opHash) == depHash \in DepHashes(opHash)

\* a link of the dependency chain: the literal of depHash lists opHash
ChainLinkMatches(depHash, opHash) == opHash \in DepHashes(depHash)

\* the walk of tryToSendObjects along a request's dependencyChain
RECURSIVE WalkChain(_, _, _)
WalkChain(st, opHash, chain) ==
  IF chain = <<>> THEN [valid |-> TRUE, missing |-> FALSE, opHash |-> opHash]
  ELSE LET depHash == Head(chain)
       IN  IF depHash \notin st
           THEN [valid |-> TRUE, missing |-> TRUE, opHash |-> opHash]
           ELSE IF ChainLinkMatches(depHash, opHash)
           THEN WalkChain(st, depHash, Tail(chain))
           ELSE [valid |-> FALSE, missing |-> FALSE, opHash |-> opHash]

\* the verdict of tryToSendObjects on one request: "send", "later",
\* or "invalid"
RequestVerdict(st, req) ==
  LET w == WalkChain(st, req.hash, req.dependencyChain)
      missing1 == w.missing \/ (w.valid /\ w.opHash \notin st)
      valid1 == w.valid /\ (missing1 \/ ShouldAcceptMutationOp(w.opHash))
      missing2 == missing1 \/ (valid1 /\ req.hash \notin st)
  IN  IF ~valid1 THEN "invalid" ELSE IF missing2 THEN "later" ELSE "send"

\* the reference dependencies of the literal of h, in order
RECURSIVE References(_)
References(deps) ==
  IF deps = <<>> THEN <<>>
  ELSE IF Head(deps).type = "reference"
       THEN <<Head(deps).hash>> \o References(Tail(deps))
       ELSE References(Tail(deps))

OwnershipProof(h, secret) == [hash |-> h, ownershipProofHash |-> HashWith(h, secret)]

RECURSIVE ProofsFor(_, _, _)
ProofsFor(refs, proven, secret) ==
  IF refs = <<>> THEN <<>>
  ELSE IF Head(refs) \in proven THEN ProofsFor(Tail(refs), proven, secret)
       ELSE <<OwnershipProof(Head(refs), secret)>>
            \o ProofsFor(Tail(refs), proven \cup {Head(refs)}, secret)

\* the loop of tryToSendObjects;
\* acc is [roots, literals, proofs, sendLater, threw]
RECURSIVE SendLoop(_, _, _, _)
SendLoop(acc, st, reqs, secret) ==
  IF reqs = <<>> \/ acc.threw THEN acc
  ELSE LET req == Head(reqs)
           verdict == RequestVerdict(st, req)
           refs == References(Dependencies(req.hash))
           proven == {pr.hash : pr \in Range(acc.proofs)}
           next ==
             CASE verdict = "send" ->
                    IF \E r \in Range(refs) : r \notin proven /\ r \notin st
                    THEN [acc EXCEPT !.threw = TRUE]
                    ELSE [acc EXCEPT
                            !.roots = IF req.hash \in Range(@) THEN @
                                      ELSE Append(@, req.hash),
                            !.literals = @ \cup SubClosure(req.hash),
                            !.proofs = @ \o ProofsFor(refs, proven, secret)]
               [] verdict = "later" ->
                    [acc EXCEPT !.sendLater = Append(@, req)]
               [] OTHER -> acc
       IN  SendLoop(next, st, Tail(reqs), secret)

SendObjsMessage(roots, literals, corrupt, proofs, secret) ==
  [type |-> "send-objs", targetObjHash |-> ObjHash,
   sentObjects |-> [rootHashes |-> roots, literals |-> literals,
                    corrupt |-> corrupt],
   omittedDeps |-> proofs, ownershipProofSecret |-> secret]

\* tryToSendObjects, after its loop left r: the message is sent if the
\* context has a root
SendCollected(ns, dest, r, secret) ==
  IF r.threw THEN [ns |-> ns, sendLater |-> <<>>, threw |-> TRUE]
  ELSE [ns |-> IF Len(r.roots) > 0
               THEN SendMessageToPeer(ns, dest, SyncAgentId,
                      SendObjsMessage(r.roots, r.literals, {}, r.proofs, secret))
               ELSE ns,
        sendLater |-> r.sendLater, threw |-> FALSE]

\* tryToSendObjects: returns [ns, sendLater]
TryToSendObjects(ns, dest, reqs, secret) ==
  SendCollected(ns, dest,
                SendLoop([roots |-> <<>>, literals |-> {}, proofs |-> <<>>,
                          sendLater |-> <<>>, threw |-> FALSE],
                         ns.store, reqs, secret),
                secret)

RECURSIVE ScheduleLoop(_, _, _, _, _)
ScheduleLoop(out, dest, reqs, secret, t) ==
  IF reqs = <<>> THEN out
  ELSE ScheduleLoop(
         InsertObjectMovement(out, dest, Head(reqs).hash,
                              Head(reqs).dependencyChain, secret,
                              SendTimeout, t).movements,
         dest, Tail(reqs), secret, t)

\* sendOrScheduleObjects, after tryToSendObjects returned r
ScheduleMissing(ns, r, dest, secret) ==
  IF r.threw THEN ns
  ELSE [r.ns EXCEPT !.outgoingObjects =
          ScheduleLoop(@, dest, r.sendLater, secret, ns.now)]

\* sendOrScheduleObjects
SendOrScheduleObjects(ns, dest, reqs, secret) ==
  ScheduleMissing(ns, TryToSendObjects(ns, dest, reqs, secret), dest, secret)

(***************************************************************************)
(* Context.                                                                *)
(***************************************************************************)
\* Context.fromLiteralContext
FromLiteralContext(lc) ==
  [rootHashes |-> lc.rootHashes, literals |-> lc.literals,
   corrupt |-> lc.corrupt, objects |-> {}]

\* Context.has
Has(ctx, h) == h \in ctx.literals \/ h \in ctx.objects

\* Context.merge
Merge(this, other) ==
  [rootHashes |-> this.rootHashes \o
                  SelectSeq(other.rootHashes,
                            LAMBDA h : h \notin Range(this.rootHashes)),
   literals |-> this.literals \cup other.literals,
   corrupt |-> this.corrupt \cup (other.corrupt \ this.literals),
   objects |-> this.objects \cup other.objects]

\* Context.checkLiteralHashes
CheckLiteralHashes(ctx) == ctx.corrupt = {}

\* Context.checkRootHashes
CheckRootHashes(ctx) == \A h \in Range(ctx.rootHashes) : h \in ctx.literals

\* Context.findMissingDeps: the entries of the map it returns, in
\* insertion order
RECURSIVE FindMissingDeps(_, _, _, _)
RECURSIVE FindMissingDepsOf(_, _, _, _)
FindMissingDeps(lits, hash, chain, missing) ==
  IF hash \notin lits
  THEN IF \E i \in 1..Len(missing) : missing[i].hash = hash
       THEN LET i == CHOOSE j \in 1..Len(missing) : missing[j].hash = hash
            IN  IF Len(chain) < Len(missing[i].dependencyChain)
                THEN [missing EXCEPT ![i].dependencyChain = chain]
                ELSE missing
       ELSE Append(missing, ObjectRequest(hash, chain))
  ELSE FindMissingDepsOf(lits, Dependencies(hash), <<hash>> \o chain, missing)

FindMissingDepsOf(lits, deps, newChain, missing) ==
  IF deps = <<>> THEN missing
  ELSE FindMissingDepsOf(lits, Tail(deps), newChain,
         FindMissingDeps(lits, Head(deps).hash, newChain, missing))

\* HashedObject.fromContextWithValidation succeeds: the literal and all it
\* depends on can be taken from the context
RECURSIVE FromContextOk(_, _)
FromContextOk(ctx, h) ==
  \/ h \in ctx.objects
  \/ /\ h \in ctx.literals
     /\ \A d \in DepHashes(h) : FromContextOk(ctx, d)

(***************************************************************************)
(* TerminalOpsSyncAgent: receiving objects.                                *)
(***************************************************************************)
RemoveKey(f, k) == [h \in DOMAIN f \ {k} |-> f[h]]

\* the hashes of a sequence of object requests
RequestHashes(reqs) == {reqs[i].hash : i \in 1..Len(reqs)}

\* the movements registered for a hash, in some order
RECURSIVE MovementSeq(_)
MovementSeq(ms) ==
  IF ms = {} THEN <<>>
  ELSE LET m == CHOOSE k \in ms : TRUE
       IN  <<m>> \o MovementSeq(ms \ {m})

\* processReceivedObject: the object is sent to those it was scheduled for
RECURSIVE ResendLoop(_, _, _)
ResendLoop(ns, hash, ms) ==
  IF ms = <<>> THEN ns
  ELSE ResendLoop(
         TryToSendObjects(ns, Head(ms).endpoint,
                          <<ObjectRequest(hash, Head(ms).dependencyChain)>>,
                          Head(ms).secret).ns,
         hash, Tail(ms))

\* processReceivedObject: the loop over opsForMissingObj.get(hash);
\* acc is [ns, nested, crashed]
RECURSIVE CompleteLoop(_, _, _)
CompleteLoop(acc, hash, ops) ==
  IF ops = <<>> \/ acc.crashed THEN acc
  ELSE LET opHash == Head(ops)
       IN  IF opHash \notin DOMAIN acc.ns.incompleteOps
           THEN [acc EXCEPT !.crashed = TRUE]
           ELSE LET e == acc.ns.incompleteOps[opHash]
                    ctx2 == [e.context EXCEPT !.objects = @ \cup {hash}]
                    miss2 == SelectSeq(e.missingObjects,
                                       LAMBDA r : r.hash # hash)
                IN  IF Len(miss2) = 0
                    THEN CompleteLoop(
                           [ns |-> [acc.ns EXCEPT
                                      !.incompleteOps = RemoveKey(@, opHash),
                                      !.opsForMissingObj = @ \ {<<hash, opHash>>},
                                      !.completed = Append(@, opHash)],
                            nested |-> Append(acc.nested,
                                         [hash |-> opHash, context |-> ctx2]),
                            crashed |-> FALSE],
                           hash, Tail(ops))
                    ELSE CompleteLoop(
                           [acc EXCEPT !.ns.incompleteOps[opHash] =
                              [e EXCEPT !.context = ctx2,
                                        !.missingObjects = miss2]],
                           hash, Tail(ops))

\* processReceivedObject: "just in case this op was received partially"
DropIncompleteOp(ns, hash) ==
  IF hash \in DOMAIN ns.incompleteOps
  THEN [ns EXCEPT
          !.opsForMissingObj =
             @ \ {<<d, hash>> : d \in RequestHashes(ns.incompleteOps[hash].missingObjects)},
          !.incompleteOps = RemoveKey(@, hash)]
  ELSE ns

\* an await of processReceivedObject throws: the promise of the call
\* rejects.  Its three callers (receiveObjects, processIncompleteOp and
\* processReceivedObject) call it without await and attach no handler, so
\* their try blocks do not see the rejection
Rejected(ns, site) == [ns EXCEPT !.unhandled = @ \cup {site}]

\* processReceivedObject, and the calls it makes for the ops it completes
RECURSIVE ProcessReceivedObject(_, _, _)
RECURSIVE ProcessSaved(_, _)
RECURSIVE ProcessWaitingOps(_, _)
RECURSIVE ProcessCompleted(_, _)
RECURSIVE ProcessAll(_, _)
ProcessReceivedObject(ns, hash, ctx) ==
  IF ~FromContextOk(ctx, hash)
  THEN Rejected(ns, "fromContextWithValidation")
  ELSE ProcessSaved(IF ShouldAcceptMutationOp(hash)
                    THEN StoreSave([ns EXCEPT !.saveCalls = Append(@, hash)],
                                   hash, ctx)
                    ELSE ns,
                    hash)

\* processReceivedObject, after the save left s1: the object is sent to
\* those it was scheduled for
ProcessSaved(s1, hash) ==
  IF s1.threw THEN Rejected([s1 EXCEPT !.threw = FALSE], "save")
  ELSE ProcessWaitingOps(
         ResendLoop([s1 EXCEPT !.processed = Append(@, hash)], hash,
                    MovementSeq({m \in s1.outgoingObjects : m.hash = hash})),
         hash)

\* processReceivedObject: the incomplete ops that wait for the object
ProcessWaitingOps(s2, hash) ==
  ProcessCompleted(
    CompleteLoop([ns |-> s2, nested |-> <<>>, crashed |-> FALSE], hash,
                 SeqOf({pr[2] : pr \in {q \in s2.opsForMissingObj : q[1] = hash}})),
    hash)

\* processReceivedObject, after the loop left lp; the loop throws where
\* incompleteOps has no entry for an op of the reverse index
ProcessCompleted(lp, hash) ==
  ProcessAll(IF lp.crashed THEN Rejected(lp.ns, "incompleteOps.get")
             ELSE DropIncompleteOp(lp.ns, hash),
             lp.nested)

ProcessAll(ns, nested) ==
  IF nested = <<>> THEN ns
  ELSE ProcessAll(
         ProcessReceivedObject(ns, Head(nested).hash, Head(nested).context),
         Tail(nested))

\* the record of the deadlines given to incomplete ops: the last one of
\* each op
Stashed(ever, hash, deadline) ==
  {pr \in ever : pr[1] # hash} \cup {<<hash, deadline>>}

\* processIncompleteOp
ProcessIncompleteOp(ns, source, hash, ctx, toRequest) ==
  IF hash \notin DOMAIN ns.incompleteOps
  THEN [ns EXCEPT
          !.incompleteOps =
             (hash :> [source |-> source, context |-> ctx,
                       missingObjects |-> toRequest,
                       timeout |-> ns.now + IncompleteOpTimeout]) @@ @,
          !.opsForMissingObj = @ \cup {<<d, hash>> : d \in RequestHashes(toRequest)},
          !.everIncomplete = Stashed(@, hash, ns.now + IncompleteOpTimeout)]
  ELSE LET e == ns.incompleteOps[hash]
           merged == Merge(e.context, ctx)
           found == {d \in RequestHashes(e.missingObjects) : Has(merged, d)}
           miss2 == SelectSeq(e.missingObjects, LAMBDA r : r.hash \notin found)
           s1 == [ns EXCEPT
                    !.incompleteOps[hash] =
                       [e EXCEPT !.context = merged, !.missingObjects = miss2],
                    !.opsForMissingObj = @ \ {<<d, hash>> : d \in found}]
       IN  IF Len(miss2) = 0
           THEN ProcessReceivedObject(
                  [s1 EXCEPT !.incompleteOps = RemoveKey(@, hash),
                             !.completed = Append(@, hash)], hash, ctx)
           ELSE IF Len(miss2) < Len(e.missingObjects)
           THEN [s1 EXCEPT
                   !.incompleteOps[hash].timeout = ns.now + IncompleteOpTimeout,
                   !.everIncomplete = Stashed(@, hash, ns.now + IncompleteOpTimeout)]
           ELSE s1

\* the proof a send-objs message gives for a dependency it omits
RECURSIVE ProofFor(_, _)
ProofFor(omittedDeps, h) ==
  IF omittedDeps = <<>> THEN NoHash
  ELSE LET last == omittedDeps[Len(omittedDeps)]
       IN  IF last.hash = h THEN last.ownershipProofHash
           ELSE ProofFor(SubSeq(omittedDeps, 1, Len(omittedDeps) - 1), h)

\* as HoldsWithProof, but the proof is not looked at
HeldUnproven(st, depHash, secret, proof) == depHash \in st

\* as HoldsWithProof, but the store is not looked at
ProvenUnheld(st, depHash, secret, proof) == HashWith(depHash, secret) = proof

\* receiveObjects: the test under which a missing dependency is taken
\* from the store
HoldsWithProof(st, depHash, secret, proof) ==
  depHash \in st /\ HashWith(depHash, secret) = proof

\* receiveObjects: the loop over findMissingDeps; acc is [ctx, toRequest]
RECURSIVE FoldLoop(_, _, _, _, _)
FoldLoop(acc, st, missing, omittedDeps, secret) ==
  IF missing = <<>> THEN acc
  ELSE LET m == Head(missing)
           next == IF HoldsWithProof(st, m.hash, secret,
                                     ProofFor(omittedDeps, m.hash))
                   THEN [acc EXCEPT !.ctx.objects = @ \cup {m.hash}]
                   ELSE [acc EXCEPT !.toRequest = Append(@, m)]
       IN  FoldLoop(next, st, Tail(missing), omittedDeps, secret)

\* as IsExpected, but the secret is not compared
IsPending(incoming, secret) == incoming # {}

\* receiveObjects: the test on the entry of incomingObjects for a root hash
\* and its source
IsExpected(incoming, secret) ==
  incoming # {} /\ \A m \in incoming : m.secret = secret

\* receiveObjects: one root hash; acc is [ns, ctx]
ReceiveRoot(acc, source, hash, omittedDeps, secret) ==
  LET ns == acc.ns
      incoming == {m \in ns.incomingObjects :
                     m.hash = hash /\ m.endpoint = source}
  IN  IF IsExpected(incoming, secret)
      THEN LET fold == FoldLoop([ctx |-> acc.ctx, toRequest |-> <<>>],
                                ns.store,
                                FindMissingDeps(acc.ctx.literals, hash, <<>>, <<>>),
                                omittedDeps, secret)
               s1 == IF Len(fold.toRequest) = 0
                     THEN ProcessReceivedObject(ns, hash, fold.ctx)
                     ELSE IF TargetOf(hash) = "none" THEN ns
                     ELSE SendRequestObjsMessage(
                            IF ShouldAcceptMutationOp(hash)
                            THEN ProcessIncompleteOp(ns, source, hash,
                                                     fold.ctx, fold.toRequest)
                            ELSE ns,
                            source, fold.toRequest)
           IN  [ns |-> [s1 EXCEPT !.incomingObjects =
                           {m \in @ : m.hash # hash}],
                ctx |-> fold.ctx]
      ELSE acc

RECURSIVE ReceiveRoots(_, _, _, _, _)
ReceiveRoots(acc, source, roots, omittedDeps, secret) ==
  IF roots = <<>> THEN acc.ns
  ELSE ReceiveRoots(ReceiveRoot(acc, source, Head(roots), omittedDeps, secret),
                    source, Tail(roots), omittedDeps, secret)

\* as ReceiveObjects, but the context is not validated
ReceiveUnvalidated(ns, source, literalContext, omittedDeps, secret) ==
  ReceiveRoots([ns |-> ns, ctx |-> FromLiteralContext(literalContext)],
               source, literalContext.rootHashes, omittedDeps, secret)

\* receiveObjects
ReceiveObjects(ns, source, literalContext, omittedDeps, secret) ==
  LET context == FromLiteralContext(literalContext)
  IN  IF CheckRootHashes(context) /\ CheckLiteralHashes(context)
      THEN ReceiveRoots([ns |-> ns, ctx |-> context], source,
                        context.rootHashes, omittedDeps, secret)
      ELSE ns

(***************************************************************************)
(* TerminalOpsSyncAgent: states.                                           *)
(***************************************************************************)
\* receiveRemoteState: the loop over the peer's terminal ops;
\* acc is [opsToFetch, badOps]
RECURSIVE FetchLoop(_, _, _)
FetchLoop(acc, ns, ops) ==
  IF ops = <<>> THEN acc
  ELSE LET opHash == Head(ops)
           alreadyFetching == opHash \in DOMAIN ns.incompleteOps
           next == IF alreadyFetching THEN acc
                   ELSE IF opHash \notin ns.store
                   THEN [acc EXCEPT !.opsToFetch =
                                      Append(@, ObjectRequest(opHash, <<>>))]
                   ELSE IF ~ShouldAcceptMutationOp(opHash)
                   THEN [acc EXCEPT !.badOps = TRUE]
                   ELSE acc
       IN  FetchLoop(next, ns, Tail(ops))

\* as ReceiveRemoteState, but ops are requested in spite of bad ops
ReceiveRemoteStateDespiteBadOps(ns, sender, hash, state) ==
  IF state # NoState
  THEN IF HashOfState(state) # hash THEN [ns |-> ns, isNew |-> FALSE]
       ELSE LET r == FetchLoop([opsToFetch |-> <<>>, badOps |-> FALSE], ns,
                               SeqOf(state.terminalOps))
            IN  [ns |-> IF Len(r.opsToFetch) > 0
                        THEN SendRequestObjsMessage(ns, sender, r.opsToFetch)
                        ELSE ns,
                 isNew |-> Len(r.opsToFetch) > 0 /\ ~r.badOps]
  ELSE [ns |-> IF hash # ns.stateHash
               THEN SendRequestStateMessage(ns, sender) ELSE ns,
        isNew |-> FALSE]

\* receiveRemoteState: returns [ns, isNew]
ReceiveRemoteState(ns, sender, hash, state) ==
  IF state # NoState
  THEN IF HashOfState(state) # hash THEN [ns |-> ns, isNew |-> FALSE]
       ELSE LET r == FetchLoop([opsToFetch |-> <<>>, badOps |-> FALSE], ns,
                               SeqOf(state.terminalOps))
            IN  [ns |-> IF ~r.badOps /\ Len(r.opsToFetch) > 0
                        THEN SendRequestObjsMessage(ns, sender, r.opsToFetch)
                        ELSE ns,
                 isNew |-> Len(r.opsToFetch) > 0 /\ ~r.badOps]
  ELSE [ns |-> IF hash # ns.stateHash
               THEN SendRequestStateMessage(ns, sender) ELSE ns,
        isNew |-> FALSE]

\* getStoredState
GetStoredState(ns) == StateObject(ns.terminalOps)

(***************************************************************************)
(* StateGossipAgent.                                                       *)
(***************************************************************************)
MaxPeers == 10
PeerGossipPercent == 20       \* peerGossipFraction 0.2
MinGossipPeers == 4
MaxCachedPrevStates == 50
NewStateErrorRetries == 3

\* sendStateObject
SendStateObject(ns, peerEndpoint, agentId) ==
  IF ns.localStateObjects # NoState
  THEN SendMessageToPeer(ns, peerEndpoint, GossipAgentId,
         [type |-> "send-state-object", agentId |-> agentId,
          state |-> ns.localStateObjects])
  ELSE ns

\* the agents whose state the gossip agent tracks once the sync agent has
\* been handed to trackAgentState
TrackedAgentIds == {SyncAgentId}

\* an entry of the map of agent ids to state hashes
StateEntry(agentId, hash) == [agentId |-> agentId, hash |-> hash]

\* sendFullState: the entries of localState
SendFullState(ns, ep) ==
  SendMessageToPeer(ns, ep, GossipAgentId,
                    [type |-> "send-full-state",
                     state |-> IF ns.localState = NoHash THEN <<>>
                               ELSE <<StateEntry(SyncAgentId, ns.localState)>>])

\* requestStateObject
RequestStateObject(ns, peerEndpoint, agentId) ==
  SendMessageToPeer(ns, peerEndpoint, GossipAgentId,
                    [type |-> "request-state-object", agentId |-> agentId])

\* gossipNewState without the raise to minGossipPeers
GossipCountNotRaised(nPeers) ==
  LET c0 == (MaxPeers * PeerGossipPercent + 99) \div 100
  IN  IF c0 > nPeers THEN nPeers ELSE c0

\* gossipNewState: how many peers are sent the state
GossipCount(nPeers) ==
  LET c0 == (MaxPeers * PeerGossipPercent + 99) \div 100
      c1 == IF c0 < MinGossipPeers THEN MinGossipPeers ELSE c0
  IN  IF c1 > nPeers THEN nPeers ELSE c1

RECURSIVE GossipLoop(_, _, _)
GossipLoop(ns, targets, agentId) ==
  IF targets = <<>> THEN ns
  ELSE GossipLoop(SendStateObject(ns, Head(targets), agentId),
                  Tail(targets), agentId)

\* gossipNewState; gossipTo is the head of the shuffled peers
GossipNewState(ns, agentId) == GossipLoop(ns, ns.gossipTo, agentId)

\* cachePreviousStateHash without the truncation
CacheUntruncated(cache, state) ==
  <<state>> \o SelectSeq(cache, LAMBDA h : h # state)

\* cachePreviousStateHash
CachePreviousStateHash(cache, state) ==
  LET removed == SelectSeq(cache, LAMBDA h : h # state)
      maxLength == MaxCachedPrevStates - 1
      truncated == IF Len(removed) > maxLength
                   THEN SubSeq(removed, 1, maxLength) ELSE removed
  IN  <<state>> \o truncated

\* stateHashIsInPreviousCache
StateHashIsInPreviousCache(ns, state) ==
  state \in Range(ns.previousStatesCache)

\* localAgentStateUpdate
LocalAgentStateUpdate(ns, agentId, state) ==
  LET hash == HashOfState(state)
      currentState == ns.localState
      s1 == IF currentState # NoHash /\ hash # currentState
            THEN [ns EXCEPT !.previousStatesCache =
                               CachePreviousStateHash(@, currentState)]
            ELSE ns
  IN  IF agentId \in ns.trackedAgentIds
      THEN GossipNewState([s1 EXCEPT !.localState = hash,
                                     !.localStateObjects = state], agentId)
      ELSE ns

\* as IsNewState, but every state read is taken for new
IsAnyState(current, hash) == TRUE

\* loadStoredState: the test on the hash of the state read
IsNewState(current, hash) == current = NoHash \/ current # hash

\* loadStoredState, once getStoredState has returned state: the agent takes
\* a new state and broadcasts the agent-state-update event, which the
\* gossip agent of the pod receives
PublishState(ns, state) ==
  IF IsNewState(ns.stateHash, HashOfState(state))
  THEN LocalAgentStateUpdate(
         [ns EXCEPT !.stateHash = HashOfState(state),
                    !.events = Append(@, HashOfState(state))],
         SyncAgentId, state)
  ELSE ns

\* loadStoredState
LoadStoredState(ns) == PublishState(ns, GetStoredState(ns))

\* receiveStateObject answering every old state, the local one too
AnswerEqualState(r, sender, agentId, state) ==
  IF ~r.threw /\ ~r.isNew THEN SendStateObject(r.ns, sender, agentId) ELSE r.ns

\* receiveStateObject, after the agent answered r: an old state is
\* answered with the local one; when the agent threw, receivedOldState
\* keeps the value of cacheHit, which is false
AnswerOldState(r, sender, agentId, state) ==
  LET receivedOldState == IF r.threw THEN FALSE ELSE ~r.isNew
  IN  IF receivedOldState /\ r.ns.localState # state
      THEN SendStateObject(r.ns, sender, agentId)
      ELSE r.ns

\* the outcome r of the k-th call of receiveRemoteState, which returned
Returned(r, k) ==
  [ns |-> [r.ns EXCEPT !.attempts = k], isNew |-> r.isNew, threw |-> FALSE]

\* the k-th call of receiveRemoteState threw and nothing caught it
Thrown(s1, k) ==
  [ns |-> [s1 EXCEPT !.attempts = k], isNew |-> FALSE, threw |-> TRUE]

\* notifyAgentOfStateArrival, r being what receiveRemoteState does when it
\* does not throw and s1.failures the number of calls that throw first (a
\* call that throws has changed nothing).  The catch block of the first
\* call runs the body of its while loop at most once: the call in the body
\* either returns, which sets valueReady, or throws out of the catch block,
\* and retries stays 0.
AfterAttempts(s1, r) ==
  LET retries == 0
  IN  IF s1.failures = 0 THEN Returned(r, 1)
      ELSE IF retries < NewStateErrorRetries
      THEN IF s1.failures = 1 THEN Returned(r, 2) ELSE Thrown(s1, 2)
      ELSE Thrown(s1, 1)

\* notifyAgentOfStateArrival: the state is handed to the sync agent
NotifyAgentOfStateArrival(s1, sender, state, stateObj) ==
  AfterAttempts(s1, ReceiveRemoteState(s1, sender, state, stateObj))

\* receiveStateObject, after setRemoteState left s1: a state of the cache
\* of previous states is old, another one is for the sync agent to judge
JudgeState(s1, sender, state, stateObj) ==
  LET cacheHit == StateHashIsInPreviousCache(s1, state)
  IN  IF cacheHit THEN [ns |-> s1, isNew |-> FALSE, threw |-> FALSE]
      ELSE NotifyAgentOfStateArrival(s1, sender, state, stateObj)

\* setRemoteState
SetRemoteState(ns, ep, state, stateObject) ==
  [ns EXCEPT !.remoteState[ep] = state, !.remoteStateObjects[ep] = stateObject]

\* receiveStateObject
ReceiveStateObject(ns, sender, agentId, stateObj) ==
  IF stateObj.wellFormed
  THEN AnswerOldState(
         JudgeState(SetRemoteState(ns, sender, HashOfState(stateObj), stateObj),
                    sender, HashOfState(stateObj), stateObj),
         sender, agentId, HashOfState(stateObj))
  ELSE ns

\* as LookupStateObject, but no state object is ever found
LookupNothing(ns, state) == NoState

\* lookupStateObject finds the object of a state hash
LookupStateObject(ns, state) ==
  LET eps == {ep \in DOMAIN ns.remoteState :
                /\ ns.remoteState[ep] = state
                /\ ns.remoteStateObjects[ep] # NoState}
  IN  IF eps = {} THEN NoState
      ELSE ns.remoteStateObjects[CHOOSE ep \in eps : TRUE]

\* receiveFullState: one entry of the map received; for an agent other
\* than the sync agent the maps hold no state
ReceiveFullStateEntry(ns, sender, agentId, hash) ==
  IF agentId \in ns.trackedAgentIds /\ agentId # SyncAgentId
  THEN RequestStateObject(ns, sender, agentId)
  ELSE IF agentId \in ns.trackedAgentIds /\ ns.localState # hash
     /\ ~StateHashIsInPreviousCache(ns, hash)
  THEN IF LookupStateObject(ns, hash) = NoState
       THEN RequestStateObject(ns, sender, agentId)
       ELSE ReceiveStateObject(ns, sender, agentId,
                               LookupStateObject(ns, hash))
  ELSE ns

\* receiveFullState
RECURSIVE ReceiveFullState(_, _, _)
ReceiveFullState(ns, sender, state) ==
  IF state = <<>> THEN ns
  ELSE ReceiveFullState(
         ReceiveFullStateEntry(ns, sender, Head(state).agentId, Head(state).hash),
         sender, Tail(state))

\* StateGossipAgent.receiveGossip
ReceiveGossip(ns, source, gossip) ==
  CASE gossip.type = "send-full-state" ->
         ReceiveFullState(ns, source, gossip.state)
    [] gossip.type = "send-state-object" ->
         ReceiveStateObject(ns, source, gossip.agentId, gossip.state)
    [] gossip.type = "request-full-state" -> SendFullState(ns, source)
    [] gossip.type = "request-state-object" ->
         SendStateObject(ns, source, gossip.agentId)
    [] OTHER -> ns

\* as IsForThisObject, but any target will do
IsForAnyObject(msg) == TRUE

\* receivePeerMessage: the test on targetObjHash
IsForThisObject(msg) == msg.targetObjHash = ObjHash

\* TerminalOpsSyncAgent.receivePeerMessage
ReceiveSyncMessage(ns, source, msg) ==
  IF ~IsForThisObject(msg) THEN ns
  ELSE CASE msg.type = "request-state" -> SendState(ns, source)
         [] msg.type = "request-objs" ->
              SendOrScheduleObjects(ns, source, msg.requestedObjects,
                                    msg.ownershipProofSecret)
         [] msg.type = "send-state" ->
              ReceiveRemoteState(ns, source, HashOfState(msg.state), msg.state).ns
         [] msg.type = "send-objs" ->
              ReceiveObjects(ns, source, msg.sentObjects, msg.omittedDeps,
                             msg.ownershipProofSecret)
         [] OTHER -> ns

\* the pod hands a peer message to the agent it is addressed to
ReceivePeerMessage(ns, source, agentId, content) ==
  IF agentId = GossipAgentId THEN ReceiveGossip(ns, source, content)
  ELSE IF agentId = SyncAgentId THEN ReceiveSyncMessage(ns, source, content)
  ELSE ns

(***************************************************************************)
(* The periodic callback of setInterval.                                   *)
(***************************************************************************)
\* the test on a movement's timeout
MovementTimedOut(timeout, t) == t > timeout

\* the test on an incomplete op's timeout
IncompleteOpTimedOut(timeout, t) == timeout > t

SweepBody(ns) ==
  LET timeouted == {h \in DOMAIN ns.incompleteOps :
                      IncompleteOpTimedOut(ns.incompleteOps[h].timeout, ns.now)}
  IN  [ns EXCEPT
         !.outgoingObjects = {m \in @ : ~MovementTimedOut(m.timeout, ns.now)},
         !.incomingObjects = {m \in @ : ~MovementTimedOut(m.timeout, ns.now)},
         !.opsForMissingObj =
            @ \ UNION {{<<d, h>> : d \in RequestHashes(ns.incompleteOps[h].missingObjects)} :
                         h \in timeouted},
         !.incompleteOps = [h \in DOMAIN @ \ timeouted |-> @[h]]]

(***************************************************************************)
(* Undo over sync: a PermissionTest object replicated in two stores.  Root *)
(* has made A an admin; A adds users; root revokes A.  An op is known by   *)
(* its kind and the identity it is about; past holds the ops its author    *)
(* had seen when creating it.                                              *)
(***************************************************************************)
Replicas == {"local", "remote"}
Users == {"U", "U2", "U3"}

PermissionOp(kind, id, past) == [kind |-> kind, id |-> id, past |-> past]

\* the ops of a set, without their past
OpNames(ops) == {<<o.kind, o.id>> : o \in ops}

\* as InvalidatedBy, but whenever the revocation was made
InvalidatedWhenever(revocation, op) == TRUE

\* the revocation of the admin invalidates the ops made on the admin's
\* authority that are not in its past
InvalidatedBy(revocation, op) == <<op.kind, op.id>> \notin revocation.past

\* the cascade: an undo op for every op whose causal justification, the
\* op that made A an admin, is invalidated
Cascade(ops) ==
  ops \cup {PermissionOp("undo", o.id, {<<o.kind, o.id>>, <<"remove-admin", "A">>}) :
             o \in {d \in ops : /\ d.kind = "add-user"
                                 /\ \E r \in ops : /\ r.kind = "remove-admin"
                                                    /\ InvalidatedBy(r, d)}}

\* PermissionTest.isUser
IsUser(ops, id) ==
  <<"add-user", id>> \in OpNames(ops) /\ <<"undo", id>> \notin OpNames(ops)

\* addUser(id, adminId) and save, while the replica takes A for an admin
AddUser(r, id) ==
  /\ <<"remove-admin", "A">> \notin OpNames(replicaOps[r])
  /\ \A q \in Replicas : <<"add-user", id>> \notin OpNames(replicaOps[q])
  /\ replicaOps' = [replicaOps EXCEPT ![r] =
                      @ \cup {PermissionOp("add-user", id, OpNames(@))}]
  /\ UNCHANGED <<syncVars, workerVars, otherVars>>

\* removeAdmin(adminId) and save
RemoveAdmin(r) ==
  /\ \A q \in Replicas : <<"remove-admin", "A">> \notin OpNames(replicaOps[q])
  /\ replicaOps' = [replicaOps EXCEPT ![r] =
                      Cascade(@ \cup {PermissionOp("remove-admin", "A", OpNames(@))})]
  /\ UNCHANGED <<syncVars, workerVars, otherVars>>

\* the sync agents bring an op of one replica to the other, once the ops of
\* its past are there
Replicate(from, to, op) ==
  /\ op \in replicaOps[from] \ replicaOps[to]
  /\ op.past \subseteq OpNames(replicaOps[to])
  /\ replicaOps' = [replicaOps EXCEPT ![to] = Cascade(@ \cup {op})]
  /\ UNCHANGED <<syncVars, workerVars, otherVars>>

NextUndo ==
  \/ \E r \in Replicas, id \in Users : AddUser(r, id)
  \/ \E r \in Replicas : RemoveAdmin(r)
  \/ \E from \in Replicas, to \in Replicas :
       \E op \in replicaOps[from] : Replicate(from, to, op)

(***************************************************************************)
(* WebRTCConnection: the messages of its data channel.  Messages are       *)
(* numbered by arrival.                                                    *)
(***************************************************************************)
MaxMessages == 4        \* messages the data channel receives in all

NoCallback == "undefined"
Callbacks == {"cb1", "cb2"}

\* a call of the message callback cb with the data of a message, made by
\* the code named
CallbackCall(cb, data, by) == [callback |-> cb, data |-> data, by |-> by]

\* WebRTCConnection.onmessage
ConnectionOnMessage(c, data) ==
  IF c.messageCallback # NoCallback
  THEN [c EXCEPT !.calls =
                   Append(@, CallbackCall(c.messageCallback, data, "onmessage"))]
  ELSE [c EXCEPT !.incomingMessages = Append(@, data)]

\* setMessageCallback: the loop that empties incomingMessages
RECURSIVE DeliverBuffered(_, _)
DeliverBuffered(c, messageCallback) ==
  IF Len(c.incomingMessages) > 0
  THEN DeliverBuffered(
         [c EXCEPT !.incomingMessages = Tail(@),
                   !.calls = Append(@, CallbackCall(messageCallback,
                                                    Head(c.incomingMessages),
                                                    "setMessageCallback"))],
         messageCallback)
  ELSE c

\* as SetMessageCallback, but the messages buffered are left where they are
SetCallbackOnly(c, messageCallback) ==
  [c EXCEPT !.messageCallback = messageCallback]

\* setMessageCallback
SetMessageCallback(c, messageCallback) ==
  IF messageCallback # NoCallback
  THEN DeliverBuffered([c EXCEPT !.messageCallback = messageCallback],
                       messageCallback)
  ELSE [c EXCEPT !.messageCallback = messageCallback]

\* the data channel receives its next message
MessageEvent ==
  /\ conn.received < MaxMessages
  /\ conn' = ConnectionOnMessage([conn EXCEPT !.received = @ + 1],
                               conn.received + 1)
  /\ UNCHANGED <<syncVars, workerVars, replicaOps, constructed>>

\* the owner of the connection sets, replaces or unsets the callback
SetCallback(cb) ==
  /\ conn' = SetMessageCallback(conn, cb)
  /\ UNCHANGED <<syncVars, workerVars, replicaOps, constructed>>

NextConnection ==
  \/ MessageEvent
  \/ \E cb \in Callbacks \cup {NoCallback} : SetCallback(cb)

(***************************************************************************)
(* UndoOp: its constructor.                                                *)
(***************************************************************************)
MaxConstructed == 3     \* calls of the constructor in all

UndoOpClassName == "hhs/UndoOp"

Undefined == [className |-> "undefined"]

\* the reversible ops of the object T that an undo op may target
ReversibleOps ==
  {[className |-> "hhs/test/ReversibleOp", target |-> ObjHash, id |-> i] :
     i \in {"r1", "r2"}}

\* targetOp instanceof UndoOp
IsUndoOp(op) == op.className = UndoOpClassName

\* what a call of the constructor gives: the op, or the error thrown
Built(op) == [op |-> op, threw |-> FALSE]
ThrownByConstructor == [op |-> Undefined, threw |-> TRUE]

\* as NewUndoOp, but the class of targetOp is not tested
NewUndoOpUnchecked(target, targetOp, cascadeOf) ==
  Built([className |-> UndoOpClassName, target |-> target,
         prevOps |-> IF targetOp = Undefined THEN Undefined ELSE {targetOp},
         targetOp |-> targetOp, cascadeOf |-> cascadeOf])

\* new UndoOp(target, targetOp, cascadeOf)
NewUndoOp(target, targetOp, cascadeOf) ==
  IF IsUndoOp(targetOp) THEN ThrownByConstructor
  ELSE Built([className |-> UndoOpClassName, target |-> target,
              prevOps |-> IF targetOp = Undefined THEN Undefined
                          ELSE {targetOp},
              targetOp |-> targetOp, cascadeOf |-> cascadeOf])

\* the undo ops constructed so far
UndoOpsBuilt ==
  {constructed[i].result.op :
     i \in {j \in 1..Len(constructed) : ~constructed[j].result.threw}}

\* the application constructs an undo op for a reversible op, for an undo
\* op it has constructed, or for no op
ConstructUndoOp(targetOp, cascadeOf) ==
  /\ Len(constructed) < MaxConstructed
  /\ constructed' =
       Append(constructed,
              [targetOp |-> targetOp, cascadeOf |-> cascadeOf,
               result |-> NewUndoOp(ObjHash, targetOp, cascadeOf)])
  /\ UNCHANGED <<syncVars, workerVars, replicaOps, conn>>

NextConstructor ==
  \E targetOp \in {Undefined} \cup ReversibleOps \cup UndoOpsBuilt,
     cascadeOf \in {Undefined} \cup UndoOpsBuilt :
       ConstructUndoOp(targetOp, cascadeOf)

(***************************************************************************)
(* WorkerSafeIdbBackend: the processes (windows, workers) that share an    *)
(* IndexedDB database.  The statics of the class exist once per process.   *)
(* Literals are numbered by the store call that stores them.               *)
(***************************************************************************)
Procs == {"P", "Q", "R"}
DbNames == {"db", "db2"}
MaxBackends == 4        \* backends constructed in all
MaxStored == 1          \* calls of store in all

\* the backends constructed so far, in all processes
RECURSIVE Constructed(_, _)
Constructed(ws, S) ==
  IF S = {} THEN 0
  ELSE LET p == CHOOSE q \in S : TRUE
       IN  Len(ws[p].backends) + Constructed(ws, S \ {p})

\* no process has constructed a backend
InitWorkers ==
  /\ workers = [p \in Procs |->
                  [broadcastId |-> NoHash, channels |-> 0, backends |-> <<>>,
                   posting |-> <<>>, inbox |-> <<>>, fired |-> <<>>]]
  /\ stored = <<>>
  /\ replicaOps = [r \in Replicas |-> {PermissionOp("add-admin", "A", {})}]
  /\ conn = [messageCallback |-> NoCallback, incomingMessages |-> <<>>,
             received |-> 0, calls |-> <<>>]
  /\ constructed = <<>>

\* init: the id is drawn at random, 128 hex digits, so that no two draws
\* are equal; the channel is opened
WorkerInit(w, p) ==
  IF w.broadcastId = NoHash
  THEN [w EXCEPT !.broadcastId = <<"broadcastId", p, w.channels + 1>>,
                 !.channels = @ + 1]
  ELSE w

\* as FromSibling, but the id of the message is not compared with the
\* process's own
FromAnyone(data, broadcastId) == data.broadcastId # NoHash

\* onmessage: the test on the broadcastId of the message
FromSibling(data, broadcastId) ==
  data.broadcastId # NoHash /\ data.broadcastId # broadcastId

\* IdbBackend.fireCallbacks: the callbacks of the backends of that name in
\* the process are called with the literal
FireCallbacks(w, dbName, literal) ==
  IF dbName \in Range(w.backends)
  THEN [w EXCEPT !.fired = Append(@, <<dbName, literal>>)]
  ELSE w

\* broadcastChannel.onmessage
OnMessage(w, data) ==
  IF FromSibling(data, w.broadcastId)
  THEN FireCallbacks(w, data.dbName, data.literal)
  ELSE w

\* new WorkerSafeIdbBackend(name) in process p
Construct(p, name) ==
  /\ Constructed(workers, Procs) < MaxBackends
  /\ workers' = [workers EXCEPT ![p] =
                   WorkerInit([@ EXCEPT !.backends = Append(@, name)], p)]
  /\ UNCHANGED <<stored, syncVars, replicaOps, otherVars>>

\* store, up to the end of its await: IdbBackend.store has persisted the
\* literal and fired the callbacks of the process
StoreLiteral(p, i) ==
  /\ i \in 1..Len(workers[p].backends)
  /\ Len(stored) < MaxStored
  /\ LET name == workers[p].backends[i]
         literal == Len(stored) + 1
     IN  /\ workers' = [workers EXCEPT ![p] =
                          [FireCallbacks(@, name, literal) EXCEPT
                             !.posting = Append(@, [dbName |-> name,
                                                    literal |-> literal])]]
         /\ stored' = Append(stored, [proc |-> p, dbName |-> name,
                                      posted |-> FALSE, echoed |-> FALSE,
                                      siblings |-> {}])
  /\ UNCHANGED <<syncVars, replicaOps, otherVars>>

\* store, after its await: postMessage.  Every other channel of the name
\* receives the message: those of the other processes and, if echo, the
\* one that posts
PostMessage(p, echo) ==
  /\ workers[p].posting # <<>>
  /\ LET m == Head(workers[p].posting)
         data == [broadcastId |-> workers[p].broadcastId,
                  dbName |-> m.dbName, literal |-> m.literal]
     IN  /\ workers' =
               [q \in Procs |->
                  IF q = p
                  THEN [workers[p] EXCEPT
                          !.posting = Tail(@),
                          !.inbox = @ \o [i \in 1..(IF echo
                                                      THEN workers[p].channels
                                                      ELSE workers[p].channels - 1)
                                             |-> data]]
                  ELSE [workers[q] EXCEPT
                          !.inbox = @ \o [i \in 1..workers[q].channels |-> data]]]
         /\ stored' = [stored EXCEPT ![m.literal] =
                         [@ EXCEPT !.posted = TRUE, !.echoed = echo,
                                   !.siblings =
                                      {q \in Procs \ {p} :
                                         m.dbName \in Range(workers[q].backends)}]]
  /\ UNCHANGED <<syncVars, replicaOps, otherVars>>

\* a channel of process p hands a message to onmessage
ReceiveBroadcast(p) ==
  /\ workers[p].inbox # <<>>
  /\ workers' = [workers EXCEPT ![p] =
                   OnMessage([@ EXCEPT !.inbox = Tail(@)], Head(workers[p].inbox))]
  /\ UNCHANGED <<stored, syncVars, replicaOps, otherVars>>

NextWorkers ==
  \/ \E p \in Procs, name \in DbNames : Construct(p, name)
  \/ \E p \in Procs, i \in 1..MaxBackends : StoreLiteral(p, i)
  \/ \E p \in Procs, echo \in BOOLEAN : PostMessage(p, echo)
  \/ \E p \in Procs : ReceiveBroadcast(p)

(***************************************************************************)
(* Steps.                                                                  *)
(***************************************************************************)
\* the messages of out addressed to dest, as the network carries them
RECURSIVE MessagesTo(_, _, _)
MessagesTo(out, src, dest) ==
  IF out = <<>> THEN <<>>
  ELSE IF Head(out).to = dest
       THEN <<[from |-> src, to |-> dest, agentId |-> Head(out).agentId,
               content |-> Head(out).content]>>
            \o MessagesTo(Tail(out), src, dest)
       ELSE MessagesTo(Tail(out), src, dest)

RECURSIVE MessagesToEnv(_, _)
MessagesToEnv(out, src) ==
  IF out = <<>> THEN <<>>
  ELSE IF Head(out).to \in Env
       THEN <<[from |-> src, to |-> Head(out).to, agentId |-> Head(out).agentId,
               content |-> Head(out).content]>>
            \o MessagesToEnv(Tail(out), src)
       ELSE MessagesToEnv(Tail(out), src)

\* the peers that out sends the state object of the state hash h
SentStateTo(out, h) ==
  {out[i].to : i \in {j \in 1..Len(out) :
                        /\ out[j].content.type = "send-state-object"
                        /\ HashOfState(out[j].content.state) = h}}

NoMessage ==
  [from |-> "none", agentId |-> "none", content |-> [type |-> "none"]]

\* the node's variables take the values a handler left; the messages it
\* sent are put on the wire
Commit(n, r, netBase) ==
  /\ r.secretCtr <= MaxSecret
  /\ store' = [store EXCEPT ![n] = r.store]
  /\ terminalOps' = [terminalOps EXCEPT ![n] = r.terminalOps]
  /\ pendingCallbacks' = [pendingCallbacks EXCEPT ![n] = r.pendingCallbacks]
  /\ stateHash' = [stateHash EXCEPT ![n] = r.stateHash]
  /\ incomingObjects' = [incomingObjects EXCEPT ![n] = r.incomingObjects]
  /\ outgoingObjects' = [outgoingObjects EXCEPT ![n] = r.outgoingObjects]
  /\ incompleteOps' = [incompleteOps EXCEPT ![n] = r.incompleteOps]
  /\ opsForMissingObj' = [opsForMissingObj EXCEPT ![n] = r.opsForMissingObj]
  /\ secretCtr' = [secretCtr EXCEPT ![n] = r.secretCtr]
  /\ localState' = [localState EXCEPT ![n] = r.localState]
  /\ remoteState' = [remoteState EXCEPT ![n] = r.remoteState]
  /\ previousStatesCache' = [previousStatesCache EXCEPT ![n] = r.previousStatesCache]
  /\ trackedAgentIds' = [trackedAgentIds EXCEPT ![n] = r.trackedAgentIds]
  /\ localStateObjects' = [localStateObjects EXCEPT ![n] = r.localStateObjects]
  /\ remoteStateObjects' = [remoteStateObjects EXCEPT ![n] = r.remoteStateObjects]
  /\ validating' = [validating EXCEPT ![n] = r.validating]
  /\ failedSaves' = [failedSaves EXCEPT ![n] = r.failedSaves]
  /\ everIncomplete' = [everIncomplete EXCEPT ![n] = r.everIncomplete]
  /\ net' = [pr \in DOMAIN netBase |->
               IF pr[1] = n THEN netBase[pr] \o MessagesTo(r.out, n, pr[2])
               ELSE netBase[pr]]
  /\ sent' = MessagesToEnv(r.out, n)
  /\ informed' = [informed EXCEPT ![n] =
                    (IF r.localState = localState[n] THEN @ ELSE {})
                    \cup SentStateTo(r.out, r.localState)]
  /\ notified' = [failures |-> r.failures, calls |-> r.attempts]
  /\ inFlight' = [inFlight EXCEPT ![n] = r.inFlight]
  /\ emitted' = [i \in 1..Len(r.events) |-> [node |-> n, state |-> r.events[i]]]
  /\ lastEvent' = [lastEvent EXCEPT ![n] =
                     IF r.events = <<>> THEN @ ELSE r.events[Len(r.events)]]
  /\ unhandled' = r.unhandled
  /\ persisting' = [node |-> n, completed |-> r.completed,
                     saveCalls |-> r.saveCalls, processed |-> r.processed]
  /\ UNCHANGED <<workerVars, replicaOps, otherVars>>

EndpointOrder == <<"A", "B", "V", "W", "X", "Y", "Z">>

\* the elements of a set of endpoints, in the order of EndpointOrder
EndpointSeq(S) == SelectSeq(EndpointOrder, LAMBDA e : e \in S)

\* the orders in which gossipNewState may find the first count peers after
\* the shuffle
GossipTargets(n) ==
  LET count == GossipCount(Cardinality(peers[n]))
  IN  {EndpointSeq(S) : S \in {T \in SUBSET peers[n] : Cardinality(T) = count}}

\* a local mutation: the application saves a new op, whose prevOps are the
\* terminal ops of the moment
CreateOp(n, o) ==
  /\ n \in running
  /\ o \in uncreated
  /\ terminalOps[n] = PrevOps(o)
  /\ LET ctx == [rootHashes |-> <<o>>, literals |-> SubClosure(o),
                 corrupt |-> {}, objects |-> {}]
         r == StoreSave(NodeState(n, <<>>), o, ctx)
     IN  /\ ~r.threw
         /\ Commit(n, r, net)
  /\ uncreated' = uncreated \ {o}
  /\ handled' = NoMessage
  /\ UNCHANGED <<now, nextSweep, running, peers, forged>>

\* the store runs opCallback for a saved op
OpCallback(n) ==
  /\ n \in running
  /\ pendingCallbacks[n] # <<>>
  /\ \E targets \in GossipTargets(n) :
       LET opHash == Head(pendingCallbacks[n])
           ns == [NodeState(n, targets) EXCEPT !.pendingCallbacks = Tail(@)]
           r == IF opHash \in ns.store /\ ShouldAcceptMutationOp(opHash)
                THEN LoadStoredState(ns) ELSE ns
       IN  Commit(n, r, net)
  /\ handled' = NoMessage
  /\ UNCHANGED <<now, nextSweep, running, peers, uncreated, forged>>

\* the store starts opCallback for a saved op; the callback loads the op
\* and, if it is to be accepted, the terminal ops of the object
StartCallback(n) ==
  /\ n \in running
  /\ pendingCallbacks[n] # <<>>
  /\ LET opHash == Head(pendingCallbacks[n])
         ns == [NodeState(n, <<>>) EXCEPT !.pendingCallbacks = Tail(@)]
         r == IF opHash \in ns.store /\ ShouldAcceptMutationOp(opHash)
              THEN [ns EXCEPT !.inFlight = Append(@, GetStoredState(ns))]
              ELSE ns
     IN  Commit(n, r, net)
  /\ handled' = NoMessage
  /\ UNCHANGED <<now, nextSweep, running, peers, uncreated, forged>>

\* a sequence without its i-th element
Without(q, i) == SubSeq(q, 1, i - 1) \o SubSeq(q, i + 1, Len(q))

\* one of the callbacks in flight goes on after its await: loadStoredState
\* compares the state it read with stateHash
FinishCallback(n, i) ==
  /\ n \in running
  /\ i \in 1..Len(inFlight[n])
  /\ \E targets \in GossipTargets(n) :
       Commit(n, PublishState([NodeState(n, targets) EXCEPT
                                 !.inFlight = Without(@, i)],
                              inFlight[n][i]),
              net)
  /\ handled' = NoMessage
  /\ UNCHANGED <<now, nextSweep, running, peers, uncreated, forged>>

\* a message in flight reaches the agent it is addressed to
Deliver(src, dest) ==
  /\ dest \in running
  /\ net[<<src, dest>>] # <<>>
  /\ LET m == Head(net[<<src, dest>>])
         r == ReceivePeerMessage(NodeState(dest, <<>>), src, m.agentId, m.content)
     IN  Commit(dest, r, [net EXCEPT ![<<src, dest>>] = Tail(@)])
  /\ handled' = Head(net[<<src, dest>>])
  /\ UNCHANGED <<now, nextSweep, running, peers, uncreated, forged>>

\* the interval callback of one node
Sweep(n) ==
  /\ n \in running
  /\ nextSweep[n] <= now
  /\ Commit(n, SweepBody(NodeState(n, <<>>)), net)
  /\ nextSweep' = [nextSweep EXCEPT ![n] = @ + SweepPeriod]
  /\ handled' = NoMessage
  /\ UNCHANGED <<now, running, peers, uncreated, forged>>

\* time passes, once every interval callback that is due has run
Tick ==
  /\ now < MaxTime
  /\ \A n \in running : nextSweep[n] > now
  /\ now' = now + 1
  /\ UNCHANGED <<nextSweep, running, peers, store, terminalOps,
                 pendingCallbacks, stateHash, incomingObjects,
                 outgoingObjects, incompleteOps, opsForMissingObj, secretCtr,
                 localState, remoteState, previousStatesCache, net, sent,
                 uncreated, forged, failedSaves, everIncomplete, handled,
                 informed, notified, inFlight, emitted, lastEvent, unhandled,
                 persisting, trackedAgentIds, localStateObjects,
                 remoteStateObjects, validating, workerVars, replicaOps,
                 otherVars>>

Links == {pr \in Nodes \X Nodes : pr[1] # pr[2]}

EmptyState == HashOfState(StateObject({}))

\* two nodes, started and connected, nothing created yet
Init ==
  /\ now = 0
  /\ nextSweep = [n \in Nodes |-> SweepPeriod]
  /\ running = Nodes
  /\ peers = [n \in Nodes |-> Nodes \ {n}]
  /\ store = [n \in Nodes |-> {"I"}]
  /\ terminalOps = [n \in Nodes |-> {}]
  /\ pendingCallbacks = [n \in Nodes |-> <<>>]
  /\ stateHash = [n \in Nodes |-> EmptyState]
  /\ incomingObjects = [n \in Nodes |-> {}]
  /\ outgoingObjects = [n \in Nodes |-> {}]
  /\ incompleteOps = [n \in Nodes |-> <<>>]
  /\ opsForMissingObj = [n \in Nodes |-> {}]
  /\ secretCtr = [n \in Nodes |-> 0]
  /\ localState = [n \in Nodes |-> EmptyState]
  /\ remoteState = [n \in Nodes |-> [e \in Endpoints |-> NoHash]]
  /\ previousStatesCache = [n \in Nodes |-> <<>>]
  /\ trackedAgentIds = [n \in Nodes |-> TrackedAgentIds]
  /\ localStateObjects = [n \in Nodes |-> StateObject({})]
  /\ remoteStateObjects = [n \in Nodes |-> [e \in Endpoints |-> NoState]]
  /\ validating = [n \in Nodes |-> <<>>]
  /\ net = [pr \in Links |-> <<>>]
  /\ sent = <<>>
  /\ uncreated = Ops
  /\ forged = 0
  /\ failedSaves = [n \in Nodes |-> {}]
  /\ everIncomplete = [n \in Nodes |-> {}]
  /\ handled = NoMessage
  /\ informed = [n \in Nodes |-> {}]
  /\ notified = [failures |-> 0, calls |-> 0]
  /\ inFlight = [n \in Nodes |-> <<>>]
  /\ emitted = <<>>
  /\ lastEvent = [n \in Nodes |-> EmptyState]
  /\ unhandled = {}
  /\ persisting = [node |-> "A", completed |-> <<>>, saveCalls |-> <<>>,
                   processed |-> <<>>]
  /\ InitWorkers

Next ==
  \/ \E n \in Nodes, o \in Ops : CreateOp(n, o)
  \/ \E n \in Nodes : OpCallback(n)
  \/ \E pr \in Links : Deliver(pr[1], pr[2])
  \/ \E n \in Nodes : Sweep(n)
  \/ Tick

Spec == Init /\ [][Next]_vars

\* the pod delivers every message, the store runs every callback, and the
\* interval timer and the clock go on
\* when the actions of the nodes can take a step
DeliverEnabled(src, dest) == dest \in running /\ net[<<src, dest>>] # <<>>

OpCallbackEnabled(n) == n \in running /\ pendingCallbacks[n] # <<>>

SweepEnabled(n) == n \in running /\ nextSweep[n] <= now

\* weak fairness of the four: the event loop runs every callback that is
\* due.  For the three whose enabling condition is given above, WF_vars(A)
\* is written out as []<>~ENABLED <<A>>_vars \/ []<><<A>>_vars
Fairness ==
  /\ \A pr \in Links :
        \/ []<>~DeliverEnabled(pr[1], pr[2])
        \/ []<><<Deliver(pr[1], pr[2])>>_vars
  /\ \A n \in Nodes :
        /\ []<>~OpCallbackEnabled(n) \/ []<><<OpCallback(n)>>_vars
        /\ []<>~SweepEnabled(n) \/ []<><<Sweep(n)>>_vars
  /\ WF_vars(Tick)

(***************************************************************************)
(* One node among peers that do not follow the protocol: the environment   *)
(* chooses the messages they send.                                         *)
(***************************************************************************)
\* a peer message from an endpoint of the environment reaches node n
Forge(n, ep, agentId, msg) ==
  /\ n \in running
  /\ ep \in peers[n] \cap Forgers
  /\ forged < MaxForged
  /\ Commit(n, ReceivePeerMessage(NodeState(n, <<>>), ep, agentId, msg), net)
  /\ forged' = forged + 1
  /\ handled' = [from |-> ep, to |-> n, agentId |-> agentId, content |-> msg]
  /\ UNCHANGED <<now, nextSweep, running, peers, uncreated>>

\* node A, started, with the endpoints of the environment as peers; its
\* store holds st, with terminal ops tops.  Peer ep (if any) has advertised
\* the terminal ops adv, through the agent agentId, and A has asked it for
\* them.
InitAlone(st, tops, ep, agentId, adv) ==
  /\ now = 0
  /\ nextSweep = [n \in Nodes |-> SweepPeriod]
  /\ running = {"A"}
  /\ peers = [n \in Nodes |-> IF n = "A" THEN Env ELSE {}]
  /\ store = [n \in Nodes |-> IF n = "A" THEN st ELSE {}]
  /\ terminalOps = [n \in Nodes |-> IF n = "A" THEN tops ELSE {}]
  /\ pendingCallbacks = [n \in Nodes |-> <<>>]
  /\ stateHash = [n \in Nodes |->
                    IF n = "A" THEN HashOfState(StateObject(tops)) ELSE NoHash]
  /\ incomingObjects =
       [n \in Nodes |->
          IF n = "A"
          THEN {Movement(h, ep, <<>>, <<"A", 1>>, ReceiveTimeout) : h \in adv}
          ELSE {}]
  /\ outgoingObjects = [n \in Nodes |-> {}]
  /\ incompleteOps = [n \in Nodes |-> <<>>]
  /\ opsForMissingObj = [n \in Nodes |-> {}]
  /\ secretCtr = [n \in Nodes |-> IF n = "A" /\ adv # {} THEN 1 ELSE 0]
  /\ localState = [n \in Nodes |->
                     IF n = "A" THEN HashOfState(StateObject(tops)) ELSE NoHash]
  /\ remoteState =
       [n \in Nodes |->
          [e \in Endpoints |->
             IF n = "A" /\ e = ep /\ adv # {} /\ agentId = GossipAgentId
             THEN HashOfState(StateObject(adv)) ELSE NoHash]]
  /\ previousStatesCache = [n \in Nodes |-> <<>>]
  /\ trackedAgentIds =
       [n \in Nodes |-> IF n = "A" THEN TrackedAgentIds ELSE {}]
  /\ localStateObjects =
       [n \in Nodes |-> IF n = "A" THEN StateObject(tops) ELSE NoState]
  /\ remoteStateObjects =
       [n \in Nodes |->
          [e \in Endpoints |->
             IF n = "A" /\ e = ep /\ adv # {} /\ agentId = GossipAgentId
             THEN StateObject(adv) ELSE NoState]]
  /\ validating = [n \in Nodes |-> <<>>]
  /\ net = [pr \in Links |-> <<>>]
  /\ sent = IF adv = {} THEN <<>>
            ELSE <<[from |-> "A", to |-> ep, agentId |-> SyncAgentId,
                    content |-> RequestObjsMessage(
                                  [i \in 1..Len(SeqOf(adv)) |->
                                     ObjectRequest(SeqOf(adv)[i], <<>>)],
                                  <<"A", 1>>)]>>
  /\ uncreated = Ops \ st
  /\ forged = 0
  /\ failedSaves = [n \in Nodes |-> {}]
  /\ everIncomplete = [n \in Nodes |-> {}]
  /\ handled = NoMessage
  /\ informed = [n \in Nodes |-> {}]
  /\ notified = [failures |-> 0, calls |-> 0]
  /\ inFlight = [n \in Nodes |-> <<>>]
  /\ emitted = <<>>
  /\ lastEvent = [n \in Nodes |->
                    IF n = "A" THEN HashOfState(StateObject(tops)) ELSE NoHash]
  /\ unhandled = {}
  /\ persisting = [node |-> "A", completed |-> <<>>, saveCalls |-> <<>>,
                   processed |-> <<>>]
  /\ InitWorkers

\* what node A does by itself
NextAlone ==
  \/ \E o \in Ops : CreateOp("A", o)
  \/ OpCallback("A")
  \/ Sweep("A")
  \/ Tick

\* the secret of a peer that never was sent one
ForgedSecret == <<"X", 0>>

(* Peers that gossip states.                                               *)
GossipMenu ==
  {[type |-> "send-state-object", agentId |-> SyncAgentId,
    state |-> StateObject(t)] : t \in {{"c"}, {"a", "c"}}}

NextGossip ==
  \/ NextAlone
  \/ \E ep \in Forgers, msg \in GossipMenu : Forge("A", ep, GossipAgentId, msg)

\* peer V has advertised the terminal op c
SpecGossip ==
  InitAlone({"I"}, {}, "V", GossipAgentId, {"c"}) /\ [][NextGossip]_vars

(* Peers that request objects.                                             *)
RequestMenu ==
  {RequestObjsMessage(r, ForgedSecret) : r \in
  {<<ObjectRequest("a", <<>>)>>, <<ObjectRequest("p", <<"a">>)>>,
   <<ObjectRequest("I", <<"b">>)>>, <<ObjectRequest("S", <<"x">>)>>,
   <<ObjectRequest("S", <<>>)>>, <<ObjectRequest("S", <<"a">>)>>,
   <<ObjectRequest("I", <<"a">>)>>, <<ObjectRequest("a", <<"c">>)>>,
   <<ObjectRequest("S", <<"c">>)>>, <<ObjectRequest("x", <<>>)>>,
   <<ObjectRequest("a", <<>>), ObjectRequest("S", <<"x">>)>>}}

NextRequests ==
  \/ NextAlone
  \/ \E msg \in RequestMenu : Forge("A", "X", SyncAgentId, msg)

\* the store holds a, b, x and what they depend on
SpecRequests ==
  InitAlone({"I", "S", "x", "a", "p", "b"}, {"a", "b"}, "X", SyncAgentId, {})
  /\ [][NextRequests]_vars

(* A peer that requests objects along chains of two ops.                   *)
\* requests for I, p, a and c along chains that lead up to c, chains that
\* lead down from c, chains with a link that does not hold, chains through
\* the op d that is not held, and no chain
ChainMenu ==
  {RequestObjsMessage(<<ObjectRequest(r[1], r[2])>>, ForgedSecret) : r \in
     {<<"I", <<"b", "c">>>>, <<"I", <<"c", "b">>>>, <<"I", <<"b">>>>,
      <<"p", <<"a", "c">>>>, <<"p", <<"c", "a">>>>, <<"p", <<"b", "c">>>>,
      <<"a", <<"c">>>>, <<"c", <<>>>>, <<"I", <<>>>>, <<"I", <<"a", "c">>>>,
      <<"c", <<"d">>>>, <<"a", <<"c", "d">>>>, <<"d", <<>>>>}}

\* every op of the model is held: none is created
NextChains ==
  \/ Sweep("A")
  \/ Tick
  \/ \E ep \in {"X", "Y"}, msg \in ChainMenu : Forge("A", ep, SyncAgentId, msg)

\* the store holds a, b, c and what they depend on
SpecChains ==
  InitAlone({"I", "a", "p", "b", "c"}, {"c"}, "X", SyncAgentId, {})
  /\ [][NextChains]_vars

(* A peer that sends objects.                                              *)
ForgedContexts ==
  {[rootHashes |-> <<"c">>, literals |-> {"c"}, corrupt |-> {}],
   [rootHashes |-> <<"b">>, literals |-> {"b"}, corrupt |-> {}],
   [rootHashes |-> <<"a", "b">>, literals |-> {"a", "p", "b"}, corrupt |-> {}],
   [rootHashes |-> <<"c">>, literals |-> {"c"}, corrupt |-> {"c"}]}

\* the proofs a peer holding a, b and I can give under a secret
ProofsUnder(secret) ==
  <<OwnershipProof("a", secret), OwnershipProof("b", secret),
    OwnershipProof("I", secret)>>

\* the secrets node A has drawn, and the forged one
KnownSecrets == {<<"A", k>> : k \in 1..secretCtr["A"]} \cup {ForgedSecret}

\* the send-objs messages under a secret: every context without proofs and
\* with the proofs under the secret, and c with proofs under another secret
SendObjsUnder(sec) ==
  {SendObjsMessage(c.rootHashes, c.literals, c.corrupt, pr, sec) :
     c \in ForgedContexts, pr \in {<<>>, ProofsUnder(sec)}}
  \cup {SendObjsMessage(<<"c">>, {"c"}, {}, ProofsUnder(ForgedSecret), sec)}

ObjectsMenu == UNION {SendObjsUnder(sec) : sec \in KnownSecrets}

NextObjects ==
  \/ NextAlone
  \/ \E msg \in ObjectsMenu : Forge("A", "X", SyncAgentId, msg)

\* peer X has advertised the terminal ops b and c
SpecObjects ==
  InitAlone({"I"}, {}, "X", SyncAgentId, {"b", "c"}) /\ [][NextObjects]_vars

(* A peer that sends an op in parts.                                       *)
\* node A holds I.  Peer X has advertised the terminal ops c and d, A has
\* asked it for them, and X has sent c with a and its subobject p: c is an
\* incomplete op that misses b, and A has asked X for b
InitParts ==
  /\ now = 0
  /\ nextSweep = [n \in Nodes |-> SweepPeriod]
  /\ running = {"A"}
  /\ peers = [n \in Nodes |-> IF n = "A" THEN Env ELSE {}]
  /\ store = [n \in Nodes |-> IF n = "A" THEN {"I"} ELSE {}]
  /\ terminalOps = [n \in Nodes |-> {}]
  /\ pendingCallbacks = [n \in Nodes |-> <<>>]
  /\ stateHash = [n \in Nodes |-> IF n = "A" THEN EmptyState ELSE NoHash]
  /\ incomingObjects =
       [n \in Nodes |->
          IF n = "A"
          THEN {Movement("d", "X", <<>>, <<"A", 1>>, ReceiveTimeout),
                Movement("b", "X", <<"c">>, <<"A", 2>>, ReceiveTimeout)}
          ELSE {}]
  /\ outgoingObjects = [n \in Nodes |-> {}]
  /\ incompleteOps =
       [n \in Nodes |->
          IF n = "A"
          THEN "c" :> [source |-> "X",
                       context |-> [rootHashes |-> <<"c">>,
                                    literals |-> {"c", "a", "p"},
                                    corrupt |-> {}, objects |-> {}],
                       missingObjects |-> <<ObjectRequest("b", <<"c">>)>>,
                       timeout |-> IncompleteOpTimeout]
          ELSE <<>>]
  /\ opsForMissingObj = [n \in Nodes |-> IF n = "A" THEN {<<"b", "c">>} ELSE {}]
  /\ secretCtr = [n \in Nodes |-> IF n = "A" THEN 2 ELSE 0]
  /\ localState = [n \in Nodes |-> IF n = "A" THEN EmptyState ELSE NoHash]
  /\ remoteState = [n \in Nodes |-> [e \in Endpoints |-> NoHash]]
  /\ previousStatesCache = [n \in Nodes |-> <<>>]
  /\ trackedAgentIds =
       [n \in Nodes |-> IF n = "A" THEN TrackedAgentIds ELSE {}]
  /\ localStateObjects =
       [n \in Nodes |-> IF n = "A" THEN StateObject({}) ELSE NoState]
  /\ remoteStateObjects = [n \in Nodes |-> [e \in Endpoints |-> NoState]]
  /\ validating = [n \in Nodes |-> <<>>]
  /\ net = [pr \in Links |-> <<>>]
  /\ sent = <<[from |-> "A", to |-> "X", agentId |-> SyncAgentId,
               content |-> RequestObjsMessage(<<ObjectRequest("b", <<"c">>)>>,
                                              <<"A", 2>>)]>>
  /\ uncreated = Ops
  /\ forged = 0
  /\ failedSaves = [n \in Nodes |-> {}]
  /\ everIncomplete =
       [n \in Nodes |-> IF n = "A" THEN {<<"c", IncompleteOpTimeout>>} ELSE {}]
  /\ handled = NoMessage
  /\ informed = [n \in Nodes |-> {}]
  /\ notified = [failures |-> 0, calls |-> 0]
  /\ inFlight = [n \in Nodes |-> <<>>]
  /\ emitted = <<>>
  /\ lastEvent = [n \in Nodes |-> IF n = "A" THEN EmptyState ELSE NoHash]
  /\ unhandled = {}
  /\ persisting = [node |-> "A", completed |-> <<>>, saveCalls |-> <<>>,
                   processed |-> <<>>]
  /\ InitWorkers

\* the send-objs messages of the peer under a secret: d alone, c with b,
\* c with all it depends on, b, b with I, b with a root that has no
\* literal, and b with a literal of a whose hash does not recompute; each
\* with and without the proofs the peer can give
PartsUnder(sec) ==
  {SendObjsMessage(c.rootHashes, c.literals, c.corrupt, pr, sec) :
     c \in {[rootHashes |-> <<"d">>, literals |-> {"d"}, corrupt |-> {}],
            [rootHashes |-> <<"c">>, literals |-> {"c", "b"}, corrupt |-> {}],
            [rootHashes |-> <<"c">>, literals |-> {"c", "a", "p", "b"},
             corrupt |-> {}],
            [rootHashes |-> <<"b">>, literals |-> {"b"}, corrupt |-> {}],
            [rootHashes |-> <<"b">>, literals |-> {"b", "I"}, corrupt |-> {}],
            [rootHashes |-> <<"b", "c">>, literals |-> {"b"}, corrupt |-> {}],
            [rootHashes |-> <<"b">>, literals |-> {"b", "a"},
             corrupt |-> {"a"}]},
     pr \in {<<>>, ProofsUnder(sec)}}

\* the requests of peer Y for the op b: by itself, and as a dependency
\* of c
DeferredMenu ==
  {RequestObjsMessage(<<ObjectRequest("b", ch)>>, <<"Y", 0>>) :
     ch \in {<<>>, <<"c">>}}

NextParts ==
  \/ NextAlone
  \/ \E k \in 1..secretCtr["A"] : \E msg \in PartsUnder(<<"A", k>>) :
       Forge("A", "X", SyncAgentId, msg)
  \/ \E req \in DeferredMenu : Forge("A", "Y", SyncAgentId, req)

SpecParts == InitParts /\ [][NextParts]_vars

(* A node whose peers leave one by one.                                    *)
\* a lost-peer event of the peer group: clearPeerState
LostPeer(n, ep) ==
  /\ n \in running
  /\ ep \in peers[n]
  /\ peers' = [peers EXCEPT ![n] = @ \ {ep}]
  /\ remoteState' = [remoteState EXCEPT ![n][ep] = NoHash]
  /\ remoteStateObjects' = [remoteStateObjects EXCEPT ![n][ep] = NoState]
  /\ sent' = <<>>
  /\ emitted' = <<>>
  /\ unhandled' = {}
  /\ persisting' = [node |-> n, completed |-> <<>>, saveCalls |-> <<>>,
                     processed |-> <<>>]
  /\ handled' = NoMessage
  /\ UNCHANGED <<now, nextSweep, running, store, terminalOps,
                 pendingCallbacks, stateHash, incomingObjects,
                 outgoingObjects, incompleteOps, opsForMissingObj, secretCtr,
                 localState, previousStatesCache, net, uncreated, forged,
                 failedSaves, everIncomplete, informed, notified, inFlight,
                 lastEvent, trackedAgentIds, localStateObjects, validating,
                 workerVars, replicaOps, otherVars>>

NextBudget ==
  \/ NextAlone
  \/ \E ep \in Env : LostPeer("A", ep)

SpecBudget == InitAlone({"I"}, {}, "V", SyncAgentId, {}) /\ [][NextBudget]_vars

(* Peers that gossip states to a node whose agent may fail.                *)
\* a peer message from an endpoint of the environment reaches node n, whose
\* sync agent throws in the first f calls of receiveRemoteState
ForgeFailing(n, ep, agentId, msg, f) ==
  /\ n \in running
  /\ ep \in peers[n] \cap Forgers
  /\ forged < MaxForged
  /\ Commit(n, ReceivePeerMessage([NodeState(n, <<>>) EXCEPT !.failures = f],
                                  ep, agentId, msg), net)
  /\ forged' = forged + 1
  /\ handled' = [from |-> ep, to |-> n, agentId |-> agentId, content |-> msg]
  /\ UNCHANGED <<now, nextSweep, running, peers, uncreated>>

\* the state objects a peer sends: of ops the node holds, of one it may
\* create, of an object that is no op, and one that does not validate
StaleMenu ==
  {[type |-> "send-state-object", agentId |-> SyncAgentId, state |-> st] :
     st \in {StateObject(t) : t \in {{"a"}, {"a", "b"}, {"c"}, {"p"}}}
             \cup {[StateObject({"a"}) EXCEPT !.wellFormed = FALSE]}}

NextStale ==
  \/ NextAlone
  \/ \E ep \in {"X", "Y"}, msg \in StaleMenu, f \in 0..MaxFailures :
       ForgeFailing("A", ep, GossipAgentId, msg, f)

\* the node holds the ops a and b, which are its terminal ops
SpecStale ==
  InitAlone({"I", "a", "p", "b"}, {"a", "b"}, "V", GossipAgentId, {})
  /\ [][NextStale]_vars

(* Peers that send objects nobody asked them for, objects that are no ops  *)
(* of the object synchronized, and messages about another object.          *)
\* the send-objs messages under a secret: the ops a (with its subobject p)
\* and b, the op x of another object with and without its dependency S, b
\* and x together, and S
RootsUnder(sec) ==
  {SendObjsMessage(<<"a">>, {"a", "p"}, {}, <<>>, sec),
   SendObjsMessage(<<"b">>, {"b"}, {}, ProofsUnder(sec), sec),
   SendObjsMessage(<<"x">>, {"x", "S"}, {}, <<>>, sec),
   SendObjsMessage(<<"x">>, {"x"}, {}, <<>>, sec),
   SendObjsMessage(<<"b", "x">>, {"b", "x", "S"}, {}, ProofsUnder(sec), sec),
   SendObjsMessage(<<"S">>, {"S"}, {}, <<>>, sec)}

\* the messages peer X and peer Y may send, as pairs of sender and message:
\* X the send-objs messages under the secrets node A has drawn, and b under
\* a secret of its own; Y the op b that X was asked for; X a message of
\* each type about another object
RootsMenu ==
  {<<"X", m>> : m \in UNION {RootsUnder(<<"A", k>>) : k \in 1..secretCtr["A"]}}
  \cup {<<"X", SendObjsMessage(<<"b">>, {"b"}, {}, ProofsUnder(ForgedSecret),
                               ForgedSecret)>>,
        <<"Y", SendObjsMessage(<<"b">>, {"b"}, {}, ProofsUnder(<<"A", 1>>),
                               <<"A", 1>>)>>}
  \cup {<<"X", [m EXCEPT !.targetObjHash = OtherObjHash]>> : m \in
          {SendObjsMessage(<<"b">>, {"b"}, {}, ProofsUnder(<<"A", 1>>), <<"A", 1>>),
           RequestObjsMessage(<<ObjectRequest("b", <<>>)>>, ForgedSecret),
           [type |-> "request-state", targetObjHash |-> ObjHash],
           [type |-> "send-state", targetObjHash |-> ObjHash,
            state |-> StateObject({"c"})]}}

NextRoots ==
  \/ NextAlone
  \/ \E pr \in RootsMenu : Forge("A", pr[1], SyncAgentId, pr[2])

\* the node holds S; peer X has advertised the terminal ops a, b and x
SpecRoots ==
  InitAlone({"I", "S"}, {}, "X", SyncAgentId, {"a", "b", "x"})
  /\ [][NextRoots]_vars

(* Two connected nodes whose store callbacks overlap.                      *)
MaxInFlight == 2

NextOverlap ==
  \/ \E n \in Nodes, o \in Ops : CreateOp(n, o)
  \/ \E n \in Nodes : Len(inFlight[n]) < MaxInFlight /\ StartCallback(n)
  \/ \E n \in Nodes, i \in 1..MaxInFlight : FinishCallback(n, i)
  \/ \E pr \in Links : Deliver(pr[1], pr[2])
  \/ \E n \in Nodes : Sweep(n)
  \/ Tick

SpecOverlap == Init /\ [][NextOverlap]_vars

(* A node whose sync agent is handed remote states.                        *)
\* receiveRemoteState is called with a state hash and, possibly, the state
\* object of a peer; the step records what it returns
CallRemoteState(n, ep, hash, state) ==
  /\ n \in running
  /\ ep \in peers[n] \cap Forgers
  /\ forged < MaxForged
  /\ Commit(n, ReceiveRemoteState(NodeState(n, <<>>), ep, hash, state).ns, net)
  /\ forged' = forged + 1
  /\ handled' = [from |-> ep, to |-> n, agentId |-> SyncAgentId,
                 content |-> [type |-> "remote-state", hash |-> hash,
                              state |-> state,
                              isNew |-> ReceiveRemoteState(NodeState(n, <<>>),
                                                           ep, hash, state).isNew]]
  /\ UNCHANGED <<now, nextSweep, running, peers, uncreated>>

\* the states handed over, as pairs of hash and state object: states with
\* the hash of each, a state under the hash of another, and hashes alone
RemoteStates ==
  {<<HashOfState(StateObject(t)), StateObject(t)>> :
     t \in {{"a"}, {"c"}, {"x"}, {"a", "x"}, {"a", "b"}}}
  \cup {<<HashOfState(StateObject({"c"})), StateObject({"a"})>>}
  \cup {<<HashOfState(StateObject(t)), NoState>> : t \in {{}, {"a"}}}

NextRemote ==
  \/ NextAlone
  \/ Forge("A", "X", SyncAgentId,
           SendObjsMessage(<<"c">>, {"c"}, {}, <<>>, <<"A", 1>>))
  \/ \E ep \in {"X", "Y"}, st \in RemoteStates :
       CallRemoteState("A", ep, st[1], st[2])

\* the node holds the op x of another object; peer X has advertised the
\* terminal op c
SpecRemote ==
  InitAlone({"I", "S", "x"}, {}, "X", SyncAgentId, {"c"})
  /\ [][NextRemote]_vars

(* Peers that gossip full states.                                          *)
\* the send-full-state messages a peer sends: maps with an entry for the
\* sync agent, for an agent that is not tracked, and for both
FullStateMenu ==
  {[type |-> "send-full-state",
    state |-> <<StateEntry(SyncAgentId, HashOfState(StateObject(t)))>>] :
     t \in {{}, {"a"}, {"c"}, {"a", "c"}}}
  \cup {[type |-> "send-full-state",
         state |-> <<StateEntry("other-agent", HashOfState(StateObject({"c"})))>>],
        [type |-> "send-full-state",
         state |-> <<StateEntry("other-agent", HashOfState(StateObject({"c"}))),
                     StateEntry(SyncAgentId, HashOfState(StateObject({"a", "c"})))>>]}

NextFull ==
  \/ NextAlone
  \/ \E ep \in {"X", "Y"}, msg \in FullStateMenu \cup GossipMenu :
       Forge("A", ep, GossipAgentId, msg)

\* peer V has advertised the terminal op c
SpecFull ==
  InitAlone({"I"}, {}, "V", GossipAgentId, {"c"}) /\ [][NextFull]_vars

(* A gossip agent whose tracked agent publishes many states.               *)
\* an agent-state-update event reaches the gossip agent of node n; the
\* events that return to a state of the past are counted
AgentStateUpdate(n, state, returning) ==
  /\ n \in running
  /\ returning => forged < MaxForged
  /\ \E targets \in GossipTargets(n) :
       Commit(n, LocalAgentStateUpdate(NodeState(n, targets), SyncAgentId, state),
              net)
  /\ forged' = IF returning THEN forged + 1 ELSE forged
  /\ handled' = NoMessage
  /\ UNCHANGED <<now, nextSweep, running, peers, uncreated>>

\* the k-th state published, and the number of a state hash
NumberedState(k) == StateObject(IF k = 0 THEN {} ELSE {k})

NumberOf(h) == IF h[3] = {} THEN 0 ELSE CHOOSE k \in h[3] : TRUE

\* the agent publishes the state it has published last
Republish(n) == AgentStateUpdate(n, StateOfHash(localState[n]), TRUE)

\* the agent publishes the next state, unless it has returned to a state
\* of the past; or the state it just left; or the oldest one cached; or
\* its state once more
NextCache ==
  \/ /\ NumberOf(localState["A"]) < MaxStates
     /\ \A h \in Range(previousStatesCache["A"]) :
           NumberOf(h) < NumberOf(localState["A"])
     /\ AgentStateUpdate("A", NumberedState(NumberOf(localState["A"]) + 1), FALSE)
  \/ /\ previousStatesCache["A"] # <<>>
     /\ \E i \in {1, Len(previousStatesCache["A"])} :
          AgentStateUpdate("A", StateOfHash(previousStatesCache["A"][i]), TRUE)
  \/ Republish("A")

SpecCache == InitAlone({"I"}, {}, "V", SyncAgentId, {}) /\ [][NextCache]_vars

(* A node whose peer group, and another one, gain and lose peers.          *)
\* the peer group of the gossip agent, and the peer groups of the mesh
PeerGroupId == "group-of-T"

PeerGroups == {PeerGroupId, "another-group"}

\* clearPeerState: remoteState and remoteStateObjects lose the endpoint
ClearPeerState(ns, endpoint) ==
  [ns EXCEPT !.remoteState = [@ EXCEPT ![endpoint] = NoHash],
             !.remoteStateObjects = [@ EXCEPT ![endpoint] = NoState]]

\* trackAgentState
TrackAgentState(ns, agentId) ==
  [ns EXCEPT !.trackedAgentIds = @ \cup {agentId}]

\* as UntrackAgentState, but the state object of the agent is kept
UntrackHashOnly(ns, agentId) ==
  [ns EXCEPT !.trackedAgentIds = @ \ {agentId},
             !.previousStatesCache = <<>>,
             !.localState = NoHash]

\* untrackAgentState; the maps of the model hold the entries of the sync
\* agent
UntrackAgentState(ns, agentId) ==
  IF agentId = SyncAgentId
  THEN [ns EXCEPT !.trackedAgentIds = @ \ {agentId},
                  !.previousStatesCache = <<>>,
                  !.localState = NoHash,
                  !.localStateObjects = NoState]
  ELSE [ns EXCEPT !.trackedAgentIds = @ \ {agentId}]

\* clearAgentState
ClearAgentState(ns, agentId) ==
  IF agentId = SyncAgentId
  THEN [ns EXCEPT !.localState = NoHash,
                  !.localStateObjects = NoState,
                  !.previousStatesCache = <<>>]
  ELSE ns

\* as receiveLocalEvent, but the peer group of the event is not compared
ReceiveEventOfAnyGroup(ns, ev) ==
  IF ev.type = "new-peer" THEN SendFullState(ns, ev.endpoint)
  ELSE IF ev.type = "lost-peer" THEN ClearPeerState(ns, ev.endpoint)
  ELSE ns

\* receiveLocalEvent, for the events of the peer mesh
ReceiveLocalEvent(ns, ev) ==
  IF ev.type = "agent-set-change"
  THEN IF ev.change = "removal"
       THEN ClearAgentState(ns, ev.agentId) ELSE ns
  ELSE IF ev.type = "new-peer"
  THEN IF ev.peerGroupId = PeerGroupId
       THEN SendFullState(ns, ev.endpoint) ELSE ns
  ELSE IF ev.type = "lost-peer"
       THEN IF ev.peerGroupId = PeerGroupId
            THEN ClearPeerState(ns, ev.endpoint) ELSE ns
       ELSE ns

\* the mesh tells node n that peer ep has joined or left peer group g; the
\* peers of the agent's group are those the mesh has reported
PeerMeshEvent(n, type, ep, g) ==
  /\ n \in running
  /\ g = PeerGroupId => (type = "new-peer" <=> ep \notin peers[n])
  /\ peers' = [peers EXCEPT ![n] =
                 IF g # PeerGroupId THEN @
                 ELSE IF type = "new-peer" THEN @ \cup {ep} ELSE @ \ {ep}]
  /\ Commit(n, ReceiveLocalEvent(NodeState(n, <<>>),
                                 [type |-> type, peerGroupId |-> g,
                                  endpoint |-> ep]), net)
  /\ handled' = [from |-> ep, to |-> n, agentId |-> GossipAgentId,
                 content |-> [type |-> type, peerGroupId |-> g]]
  /\ UNCHANGED <<now, nextSweep, running, uncreated, forged>>

NextPeers ==
  \/ NextAlone
  \/ \E msg \in GossipMenu : Forge("A", "X", GossipAgentId, msg)
  \/ \E type \in {"new-peer", "lost-peer"}, ep \in {"V", "X"},
        g \in PeerGroups : PeerMeshEvent("A", type, ep, g)

\* peer V has advertised the terminal op c
SpecPeers ==
  InitAlone({"I"}, {}, "V", GossipAgentId, {"c"}) /\ [][NextPeers]_vars

(* A peer that sends an op whose dependency the node does not hold.        *)
\* the send-objs messages under a secret: the op b alone, b with the
\* literal of the identity I it refers to, and I
FaultsUnder(sec) ==
  {SendObjsMessage(<<"b">>, {"b"}, {}, <<>>, sec),
   SendObjsMessage(<<"b">>, {"b", "I"}, {}, <<>>, sec),
   SendObjsMessage(<<"I">>, {"I"}, {}, <<>>, sec)}

NextFaults ==
  \/ NextAlone
  \/ \E sec \in KnownSecrets :
       \E msg \in FaultsUnder(sec) : Forge("A", "X", SyncAgentId, msg)

\* the store of the node is empty; peer X has advertised the terminal op b
SpecFaults ==
  InitAlone({}, {}, "X", SyncAgentId, {"b"}) /\ [][NextFaults]_vars

(* Two replicas of a PermissionTest object.                                *)
SpecUndo ==
  InitAlone({"I"}, {}, "V", SyncAgentId, {}) /\ [][NextUndo]_vars

(* Processes that share a database through WorkerSafeIdbBackend.          *)
SpecWorkers ==
  InitAlone({"I"}, {}, "V", SyncAgentId, {}) /\ [][NextWorkers]_vars

(* Two connected nodes whose connection is lost and made again, and whose   *)
(* messages are all delivered.                                             *)
\* the connection of node n to its peer ep is lost and made again: the
\* mesh tells n that ep has left the group, and then that it has joined;
\* the two events are counted
Reconnection(n, ep) ==
  /\ n \in running
  /\ ep \in peers[n]
  /\ forged + 2 <= MaxForged
  /\ LET lost == [type |-> "lost-peer", peerGroupId |-> PeerGroupId,
                  endpoint |-> ep]
         new == [type |-> "new-peer", peerGroupId |-> PeerGroupId,
                 endpoint |-> ep]
     IN  Commit(n, ReceiveLocalEvent(
                     ReceiveLocalEvent(NodeState(n, <<>>), lost), new), net)
  /\ forged' = forged + 2
  /\ handled' = [from |-> ep, to |-> n, agentId |-> GossipAgentId,
                 content |-> [type |-> "new-peer",
                              peerGroupId |-> PeerGroupId]]
  /\ UNCHANGED <<now, nextSweep, running, peers, uncreated>>

NextFair ==
  \/ Next
  \/ Reconnection("A", "B")

SpecFair == Init /\ [][NextFair]_vars /\ Fairness

(* A WebRTCConnection whose owner sets its message callback.               *)
SpecConnection ==
  InitAlone({"I"}, {}, "V", SyncAgentId, {}) /\ [][NextConnection]_vars

(* An application that constructs undo ops.                                *)
SpecConstructor ==
  InitAlone({"I"}, {}, "V", SyncAgentId, {}) /\ [][NextConstructor]_vars

(* A node whose sync agent is shut down while the application goes on.     *)
\* TerminalOpsSyncAgent.shutdown: the watch is removed and the interval
\* cleared
Shutdown(n) ==
  /\ n \in running
  /\ running' = running \ {n}
  /\ Commit(n, NodeState(n, <<>>), net)
  /\ handled' = NoMessage
  /\ UNCHANGED <<now, nextSweep, peers, uncreated, forged>>

\* the application saves a new op in the store of node n, whose agent has
\* been shut down
PersistOp(n, o) ==
  /\ n \notin running
  /\ o \in uncreated
  /\ terminalOps[n] = PrevOps(o)
  /\ LET ctx == [rootHashes |-> <<o>>, literals |-> SubClosure(o),
                 corrupt |-> {}, objects |-> {}]
         r == StoreSave(NodeState(n, <<>>), o, ctx)
     IN  /\ ~r.threw
         /\ Commit(n, r, net)
  /\ uncreated' = uncreated \ {o}
  /\ handled' = NoMessage
  /\ UNCHANGED <<now, nextSweep, running, peers, forged>>

NextShutdown ==
  \/ NextAlone
  \/ \E msg \in GossipMenu : Forge("A", "X", GossipAgentId, msg)
  \/ Shutdown("A")
  \/ \E o \in Ops : PersistOp("A", o)

\* peer X has advertised the terminal op c, and the node has asked for it
SpecShutdown ==
  InitAlone({"I"}, {}, "X", SyncAgentId, {"c"}) /\ [][NextShutdown]_vars

(* A gossip agent that is told which agents to track.                      *)
\* the sync agent of the pod, and the id of an agent the pod does not hold
AgentIds == {SyncAgentId, "other-agent"}

NoEndpoint == "none"

\* the application calls trackAgentState or untrackAgentState of the gossip
\* agent of node n
TrackingCall(n, call, agentId) ==
  /\ n \in running
  /\ Commit(n, IF call = "track"
               THEN TrackAgentState(NodeState(n, <<>>), agentId)
               ELSE UntrackAgentState(NodeState(n, <<>>), agentId), net)
  /\ handled' = [from |-> NoEndpoint, to |-> n, agentId |-> GossipAgentId,
                 content |-> [type |-> call, agentId |-> agentId]]
  /\ UNCHANGED <<now, nextSweep, running, peers, uncreated, forged>>

\* the pod of node n broadcasts an agent-set-change event; the sync agent
\* is removed at most once, and is shut down by then
AgentSetChange(n, change, agentId) ==
  /\ n \in running
  /\ Commit(n, ReceiveLocalEvent(NodeState(n, <<>>),
                                 [type |-> "agent-set-change",
                                  change |-> change, agentId |-> agentId]),
            net)
  /\ running' = IF change = "removal" /\ agentId = SyncAgentId
                THEN running \ {n} ELSE running
  /\ handled' = [from |-> NoEndpoint, to |-> n, agentId |-> GossipAgentId,
                 content |-> [type |-> "agent-set-change", change |-> change,
                              agentId |-> agentId]]
  /\ UNCHANGED <<now, nextSweep, peers, uncreated, forged>>

NextTracking ==
  \/ NextAlone
  \/ \E msg \in GossipMenu \cup FullStateMenu :
       Forge("A", "X", GossipAgentId, msg)
  \/ \E call \in {"track", "untrack"}, agentId \in AgentIds :
       TrackingCall("A", call, agentId)
  \/ \E change \in {"addition", "removal"}, agentId \in AgentIds :
       AgentSetChange("A", change, agentId)

\* peer V has advertised the terminal op c
SpecTracking ==
  InitAlone({"I"}, {}, "V", GossipAgentId, {"c"}) /\ [][NextTracking]_vars

(* A gossip agent that validates the state objects it receives while its   *)
(* peers come and go.                                                      *)
\* a send-state-object message of peer ep reaches the gossip agent of node
\* n: receiveStateObject awaits the validation of the state object
StartValidation(n, ep, msg) ==
  /\ n \in running
  /\ ep \in peers[n] \cap Forgers
  /\ forged < MaxForged
  /\ msg.type = "send-state-object"
  /\ Commit(n, [NodeState(n, <<>>) EXCEPT
                  !.validating = Append(@, [sender |-> ep, msg |-> msg])],
            net)
  /\ forged' = forged + 1
  /\ handled' = NoMessage
  /\ UNCHANGED <<now, nextSweep, running, peers, uncreated>>

\* one of the validations returns, and receiveStateObject goes on
FinishValidation(n, i) ==
  /\ n \in running
  /\ i \in 1..Len(validating[n])
  /\ LET v == validating[n][i]
     IN  /\ Commit(n, ReceiveStateObject(
                        [NodeState(n, <<>>) EXCEPT !.validating = Without(@, i)],
                        v.sender, v.msg.agentId, v.msg.state), net)
         /\ handled' = [from |-> v.sender, to |-> n, agentId |-> GossipAgentId,
                        content |-> v.msg]
  /\ UNCHANGED <<now, nextSweep, running, peers, uncreated, forged>>

NextValidation ==
  \/ NextAlone
  \/ \E msg \in GossipMenu : StartValidation("A", "X", msg)
  \/ \E i \in 1..MaxForged : FinishValidation("A", i)
  \/ \E type \in {"new-peer", "lost-peer"}, ep \in {"V", "X"} :
       PeerMeshEvent("A", type, ep, PeerGroupId)

\* peer V has advertised the terminal op c
SpecValidation ==
  InitAlone({"I"}, {}, "V", GossipAgentId, {"c"}) /\ [][NextValidation]_vars

(***************************************************************************)
(* Properties of two connected nodes (Spec).                               *)
(***************************************************************************)
\* no message is in flight and no store callback is pending
Quiescent ==
  /\ \A pr \in DOMAIN net : net[pr] = <<>>
  /\ \A n \in Nodes : pendingCallbacks[n] = <<>>

\* C1: convergence.  When nothing is left to deliver or to run, the two
\* stores hold the same terminalOps(T).  (From a quiescent state only the
\* clock and the sweeps go on, unless another op is created.)
C1_Convergence ==
  Quiescent => terminalOps["A"] = terminalOps["B"]

\* the ops persisted on T
PersistedOps(n) == {o \in store[n] : TargetOf(o) = ObjHash}

\* the persisted ops on T that no persisted op on T lists in its prevOps
Frontier(n) ==
  {o \in PersistedOps(n) : \A q \in PersistedOps(n) : o \notin PrevOps(q)}

\* C5: terminal-ops frontier.  The incrementally maintained terminalOps(T)
\* is the set of persisted ops on T that no persisted op on T lists in its
\* prevOps, and it changes only in a step that persists an op on T.
C5_Frontier ==
  /\ [](\A n \in Nodes : terminalOps[n] = Frontier(n))
  /\ [][\A n \in Nodes :
          terminalOps'[n] # terminalOps[n] =>
            \E o \in Ops : o \in store'[n] /\ o \notin store[n]]_vars

C5_Witness ==
  \E n \in Nodes : terminalOps[n] = {"c"} /\ {"a", "b", "c"} \subseteq store[n]

\* the last time the interval callback of n ran
LastSweep(n) == nextSweep[n] - SweepPeriod

\* C6: incomplete-op liveness.  No entry of incompleteOps is still there
\* after the interval callback has run at a time later than the entry's
\* deadline.
C6_IncompleteOpsLeave ==
  \A n \in Nodes : \A h \in DOMAIN incompleteOps[n] :
     LastSweep(n) <= incompleteOps[n][h].timeout

\* C7: the sweep removes an incomplete op exactly when its deadline has
\* passed, together with its entries in opsForMissingObj.
C7_SweepExpiresExactly ==
  [][\A n \in Nodes :
       nextSweep'[n] # nextSweep[n] =>
         \A h \in DOMAIN incompleteOps[n] :
            /\ (h \notin DOMAIN incompleteOps'[n])
                 <=> (now > incompleteOps[n][h].timeout)
            /\ (h \notin DOMAIN incompleteOps'[n]) =>
                 \A d \in Hashes : <<d, h>> \notin opsForMissingObj'[n]]_vars

\* C8: partial-dependency fetch.  An op is never persisted while one of
\* its prevOps is missing, and an op that was stashed as incomplete is
\* persisted once its prevOps are, as long as the deadline it was given
\* has not passed.
C8_PartialFetch ==
  \A n \in Nodes :
     /\ \A o \in Ops : o \in store[n] => PrevOps(o) \subseteq store[n]
     /\ \A pr \in everIncomplete[n] :
          (now <= pr[2] /\ PrevOps(pr[1]) \subseteq store[n]) => pr[1] \in store[n]

(***************************************************************************)
(* Properties of one node among peers of the environment.                  *)
(***************************************************************************)
\* the hashes a request names, from the requested one up its chain
ChainPath(req) == <<req.hash>> \o req.dependencyChain

\* link i of the chain of req holds: the literal of the i-th chain element
\* is in the store and lists the hash before it as a dependency
LinkHolds(st, req, i) ==
  /\ ChainPath(req)[i + 1] \in st
  /\ ChainPath(req)[i] \in DepHashes(ChainPath(req)[i + 1])

ChainTop(req) == ChainPath(req)[Len(ChainPath(req))]

\* the chain of req links the requested hash, through literals of the
\* store, to an accepted op on ObjHash, and the requested object is held
ChainVerified(st, req) ==
  /\ \A i \in 1..Len(req.dependencyChain) : LinkHolds(st, req, i)
  /\ ChainTop(req) \in st
  /\ ShouldAcceptMutationOp(ChainTop(req))
  /\ req.hash \in st

\* the store shows the chain of req to be wrong: a literal it holds does
\* not list the hash before it, or the op the chain leads to is held and
\* is not an accepted op on ObjHash
ChainRefuted(st, req) ==
  \/ \E i \in 1..Len(req.dependencyChain) :
        /\ \A j \in 1..(i - 1) : LinkHolds(st, req, j)
        /\ ChainPath(req)[i + 1] \in st
        /\ ~LinkHolds(st, req, i)
  \/ /\ \A i \in 1..Len(req.dependencyChain) : LinkHolds(st, req, i)
     /\ ChainTop(req) \in st
     /\ ~ShouldAcceptMutationOp(ChainTop(req))

IsSendObjs(m) == m.agentId = SyncAgentId /\ m.content.type = "send-objs"

IsRequestObjs(m) == m.agentId = SyncAgentId /\ m.content.type = "request-objs"

\* every root of every send-objs message the last step sent answers a
\* request of the message handled whose chain is verified
AnswersVerified ==
  IsRequestObjs(handled) =>
    \A i \in 1..Len(sent) :
       IsSendObjs(sent[i]) =>
         /\ sent[i].to = handled.from
         /\ \A root \in Range(sent[i].content.sentObjects.rootHashes) :
               \E k \in 1..Len(handled.content.requestedObjects) :
                  /\ handled.content.requestedObjects[k].hash = root
                  /\ ChainVerified(store["A"], handled.content.requestedObjects[k])
         /\ sent[i].content.sentObjects.literals =
              UNION {SubClosure(root) :
                       root \in Range(sent[i].content.sentObjects.rootHashes)}

RequestOf(m) == ObjectRequest(m.hash, m.dependencyChain)

HandledObjects ==
  /\ forged' # forged
  /\ IsSendObjs(handled')
  /\ CheckRootHashes(FromLiteralContext(handled'.content.sentObjects))
  /\ CheckLiteralHashes(FromLiteralContext(handled'.content.sentObjects))

\* root h of that message was expected from its sender under its secret
ExpectedRoot(h) ==
  \E m \in incomingObjects["A"] :
     /\ m.hash = h
     /\ m.endpoint = handled'.from
     /\ m.secret = handled'.content.ownershipProofSecret

\* the dependencies of root h that the message left out
OmittedOf(h) ==
  RequestHashes(FindMissingDeps(handled'.content.sentObjects.literals,
                                h, <<>>, <<>>))

\* the receiver held d before the step and the message proves, under the
\* secret of the pending request, that the sender holds it too
ProvenHeld(d) ==
  /\ d \in store["A"]
  /\ ProofFor(handled'.content.omittedDeps, d)
       = HashWith(d, handled'.content.ownershipProofSecret)

\* the step asked the sender of the message for d
AskedSender(d) ==
  \E i \in 1..Len(sent') :
     /\ IsRequestObjs(sent'[i])
     /\ sent'[i].to = handled'.from
     /\ d \in RequestHashes(sent'[i].content.requestedObjects)

\* d was being fetched already: from the sender, or from two peers
AlreadyFetching(d) ==
  \/ \E m \in incomingObjects["A"] : m.hash = d /\ m.endpoint = handled'.from
  \/ Cardinality({m \in incomingObjects["A"] : m.hash = d}) >= 2

\* a root left without an omitted dependency is persisted or stashed only
\* with every dependency it took from the store proven
FoldsAreProven(h) ==
  /\ (h \in store'["A"] /\ h \notin store["A"]) =>
        \A d \in OmittedOf(h) : ProvenHeld(d)
  /\ (h \in DOMAIN incompleteOps'["A"] /\ h \notin DOMAIN incompleteOps["A"]) =>
        \A d \in incompleteOps'["A"][h].context.objects : ProvenHeld(d)

\* C3: ownership-proof soundness (R2).  A dependency a received root
\* leaves out is taken from the store only if the receiver holds it and
\* the proof of the message is the hash of the held value under the secret
\* of the pending request.  With any other dependency left out the root is
\* not persisted by the step, and the dependency is requested from the sender unless
\* it is being fetched already (from the sender, or from two peers).
C3_OwnershipProofSoundness ==
  [][HandledObjects =>
       \A h \in Range(handled'.content.sentObjects.rootHashes) :
          ExpectedRoot(h) =>
            /\ FoldsAreProven(h)
            /\ \A d \in OmittedOf(h) :
                  ~ProvenHeld(d) =>
                     /\ h \notin store'["A"] \ store["A"]
                     /\ AskedSender(d) \/ AlreadyFetching(d)]_vars

\* c arrived without a and b, a was taken from the store on a proof, b was
\* not held and was requested
C3_Witness ==
  /\ IsSendObjs(handled)
  /\ "c" \in DOMAIN incompleteOps["A"]
  /\ incompleteOps["A"]["c"].context.objects = {"a"}
  /\ \E i \in 1..Len(sent) :
        /\ IsRequestObjs(sent[i])
        /\ RequestHashes(sent[i].content.requestedObjects) = {"b"}

\* C3 as stated: every dependency that is not taken from the store is put
\* in the follow-up request-objs to the sender.
C3_Original ==
  [][HandledObjects =>
       \A h \in Range(handled'.content.sentObjects.rootHashes) :
          ExpectedRoot(h) =>
            /\ FoldsAreProven(h)
            /\ \A d \in OmittedOf(h) :
                  ~ProvenHeld(d) =>
                     /\ h \notin store'["A"] \ store["A"]
                     /\ AskedSender(d)]_vars

\* C4: closed-world persistence.  Every prevOp of a persisted op on ObjHash
\* is persisted, and store.save was never called for an op with a
\* dependency that is neither in the store nor in the context saved.
C4_ClosedWorld ==
  \A n \in Nodes :
     /\ \A o \in PersistedOps(n) : PrevOps(o) \subseteq PersistedOps(n)
     /\ failedSaves[n] = {}

\* c was received, not created, and is persisted
C4_Witness ==
  /\ "c" \in store["A"]
  /\ "c" \in uncreated
  /\ {"a", "b"} \subseteq store["A"]

\* C9: gossip freshness.  Once the store callbacks of node A have run,
\* every peer of A has been sent the state object of A's local state.
\* (No later step of A sends it unless a peer asks.)
C9_GossipFreshness ==
  (pendingCallbacks["A"] = <<>> /\ localState["A"] # EmptyState)
     => peers["A"] \subseteq informed["A"]

\* the endpoints that incomingObjects expects hash h from
PendingFrom(n, h) == {m.endpoint : m \in {k \in incomingObjects[n] : k.hash = h}}

\* C10: backpressure.  For every hash, incomingObjects holds at most two
\* pending requests, at most one per endpoint; a request-objs message
\* names only hashes for which the step registered a pending entry, and it
\* names at least one.
C10_Backpressure ==
  /\ [](\A n \in Nodes : \A h \in Hashes :
          /\ Cardinality(PendingFrom(n, h)) <= 2
          /\ Cardinality({m \in incomingObjects[n] : m.hash = h})
               = Cardinality(PendingFrom(n, h)))
  /\ [][\A i \in 1..Len(sent') :
          (forged' # forged /\ IsRequestObjs(sent'[i])) =>
             /\ Len(sent'[i].content.requestedObjects) > 0
             /\ \A k \in 1..Len(sent'[i].content.requestedObjects) :
                   \E m \in incomingObjects'[sent'[i].from] \ incomingObjects[sent'[i].from] :
                      /\ m.hash = sent'[i].content.requestedObjects[k].hash
                      /\ m.endpoint = sent'[i].to
                      /\ m.secret = sent'[i].content.ownershipProofSecret]_vars

\* c is expected from two peers, a third advertised it and was not asked
C10_Witness ==
  /\ Cardinality(PendingFrom("A", "c")) = 2
  /\ handled.agentId = GossipAgentId
  /\ handled.content.type = "send-state-object"
  /\ handled.content.state.terminalOps = {"c"}
  /\ handled.from \notin PendingFrom("A", "c")
  /\ sent = <<>>

(***************************************************************************)
(* Properties of a node whose peers leave (SpecBudget).                    *)
(***************************************************************************)
\* min(P, max(minGossipPeers, ceil(maxPeers * peerGossipFraction)))
Budget(P) ==
  LET frac == (MaxPeers * PeerGossipPercent + 99) \div 100
      most == IF MinGossipPeers > frac THEN MinGossipPeers ELSE frac
  IN  IF P < most THEN P ELSE most

\* the messages of a sequence are send-state-object messages, to distinct
\* endpoints of P
GossipedTo(msgs, P) ==
  /\ \A i \in 1..Len(msgs) :
        /\ msgs[i].agentId = GossipAgentId
        /\ msgs[i].content.type = "send-state-object"
        /\ msgs[i].to \in P
  /\ \A i, j \in 1..Len(msgs) : msgs[i].to = msgs[j].to => i = j

GossipedState ==
  /\ forged' # forged
  /\ handled'.agentId = GossipAgentId
  /\ handled'.content.type = "send-state-object"
  /\ handled'.content.state.wellFormed

\* the hash received is in the cache of previous states
CacheHit ==
  HashOfState(handled'.content.state) \in Range(previousStatesCache["A"])

\* what receiveRemoteState of the sync agent returns for the state received
JudgedNew ==
  ReceiveRemoteState(NodeState("A", <<>>), handled'.from,
                     HashOfState(handled'.content.state),
                     handled'.content.state).isNew

\* the step sent the peer e the state object of the local state
RepliedTo(e) ==
  \E i \in 1..Len(sent') :
     /\ sent'[i].to = e
     /\ sent'[i].agentId = GossipAgentId
     /\ sent'[i].content.type = "send-state-object"
     /\ HashOfState(sent'[i].content.state) = localState["A"]

\* the step sent no state object, but possibly one to an endpoint of E
NoStateObjectBut(E) ==
  \A i \in 1..Len(sent') :
     sent'[i].content.type = "send-state-object" => sent'[i].to \in E

\* C12: when the gossip agent receives a valid send-state-object from peer
\* e and the state is not new (its hash is in the cache of previous states,
\* or receiveRemoteState returned false), it sends its own state object back
\* to e if and only if the received hash differs from the local one; a state
\* reported as new triggers no reply.
C12_StaleStateSelfHeal ==
  [][GossipedState /\ notified'.failures = 0 =>
       IF CacheHit \/ ~JudgedNew
       THEN /\ RepliedTo(handled'.from)
               <=> HashOfState(handled'.content.state) # localState["A"]
            /\ NoStateObjectBut({handled'.from})
       ELSE NoStateObjectBut({})]_vars

\* peer X sent a state that is not the local one and holds nothing new, and
\* was sent the local state
C12_Witness ==
  /\ handled.from = "X"
  /\ handled.content.type = "send-state-object"
  /\ handled.content.state = StateObject({"a"})
  /\ notified = [failures |-> 0, calls |-> 1]
  /\ Len(sent) = 1
  /\ sent[1].to = "X"
  /\ sent[1].content.type = "send-state-object"
  /\ HashOfState(sent[1].content.state) = localState["A"]

\* C20: when receiveRemoteState throws on every attempt, the gossip agent
\* calls it again exactly newStateErrorRetries times after the first
\* failure, that is 1 + newStateErrorRetries times in all.
C20_RetryCount ==
  (notified.calls > 0 /\ notified.failures > NewStateErrorRetries)
    => notified.calls = 1 + NewStateErrorRetries

(***************************************************************************)
(* Properties of a node that is sent objects and foreign messages          *)
(* (SpecRoots).                                                            *)
(***************************************************************************)
\* the roots of the send-objs message the step handled
HandledRoots == Range(handled'.content.sentObjects.rootHashes)

\* C13: a root object of a received send-objs message is processed (saved,
\* stashed as incomplete, or its pending entry consumed) only if
\* incomingObjects holds an entry for its hash from the message's source
\* whose secret is the message's ownershipProofSecret.  A root without such
\* an entry is neither saved nor stashed by the step and its pending
\* entries stay; a message with no expected root changes neither the
\* agent's tables nor the store, and nothing is sent.
C13_ExpectedRootsOnly ==
  [][forged' # forged /\ IsSendObjs(handled') /\ IsForThisObject(handled'.content) =>
       /\ \A h \in HandledRoots :
             ~ExpectedRoot(h) =>
               /\ h \in store'["A"] => h \in store["A"]
               /\ h \in DOMAIN incompleteOps'["A"]
                    => h \in DOMAIN incompleteOps["A"]
               /\ {m \in incomingObjects'["A"] : m.hash = h}
                    = {m \in incomingObjects["A"] : m.hash = h}
       /\ (\A h \in HandledRoots : ~ExpectedRoot(h)) =>
             /\ sent' = <<>>
             /\ UNCHANGED <<store, terminalOps, pendingCallbacks, stateHash,
                            incomingObjects, outgoingObjects, incompleteOps,
                            opsForMissingObj, secretCtr>>]_vars

\* op b has been sent by peer Y, which was not asked for it, and by peer X
\* under a secret of its own: X is still expected to send it
C13_Witness ==
  /\ forged = 2
  /\ IsSendObjs(handled)
  /\ handled.content.sentObjects.rootHashes = <<"b">>
  /\ handled.content.targetObjHash = ObjHash
  /\ \/ handled.from = "Y"
     \/ handled.content.ownershipProofSecret = ForgedSecret
  /\ "b" \notin store["A"]
  /\ \E m \in incomingObjects["A"] : m.hash = "b" /\ m.endpoint = "X"

\* the objects an accepted mutation op of the object is saved with
SavedWith(o) == IF ShouldAcceptMutationOp(o) THEN SubClosure(o) ELSE {}

\* C14: whatever the store gains in a step that handles a send-objs message
\* is a mutation op of an accepted class whose target is objHash, saved
\* with its subobjects; a received root that is complete and expected but
\* fails the test is not saved.
C14_OnlyAcceptedOpsSaved ==
  [][forged' # forged /\ IsSendObjs(handled') =>
       /\ \A h \in store'["A"] \ store["A"] :
             \E o \in store'["A"] \ store["A"] :
                /\ h \in SavedWith(o)
                /\ ClassOf(o) \in AcceptedMutationOpClasses
                /\ TargetOf(o) = ObjHash
       /\ \A h \in HandledRoots :
             (ClassOf(h) \notin AcceptedMutationOpClasses \/ TargetOf(h) # ObjHash)
               => (h \in store'["A"] => h \in store["A"])]_vars

\* the op x of another object arrived whole from the peer asked for it, and
\* was dropped: it is neither saved nor expected any more
C14_Witness ==
  /\ IsSendObjs(handled)
  /\ handled.from = "X"
  /\ handled.content.sentObjects.rootHashes = <<"x">>
  /\ handled.content.sentObjects.literals = {"x", "S"}
  /\ handled.content.ownershipProofSecret = <<"A", 1>>
  /\ handled.content.targetObjHash = ObjHash
  /\ "x" \notin store["A"]
  /\ \A m \in incomingObjects["A"] : m.hash # "x"
  /\ \E m \in incomingObjects["A"] : m.hash = "b"

\* C15: a sync message whose targetObjHash is not the agent's objHash is
\* ignored, whatever its type: nothing is sent and the state, the tables of
\* the agent and the store stay as they are.
C15_ForeignTargetIgnored ==
  [][(forged' # forged /\ handled'.agentId = SyncAgentId
        /\ handled'.content.targetObjHash # ObjHash) =>
       /\ sent' = <<>>
       /\ UNCHANGED <<store, terminalOps, pendingCallbacks, stateHash,
                      incomingObjects, outgoingObjects, incompleteOps,
                      opsForMissingObj, secretCtr, localState>>]_vars

\* a send-objs message about another object brought the op b, which the
\* node expects from its sender under the secret given, and b is not saved
C15_Witness ==
  /\ IsSendObjs(handled)
  /\ handled.content.targetObjHash = OtherObjHash
  /\ handled.content.ownershipProofSecret = <<"A", 1>>
  /\ "b" \notin store["A"]
  /\ \E m \in incomingObjects["A"] :
        m.hash = "b" /\ m.endpoint = "X" /\ m.secret = <<"A", 1>>

(***************************************************************************)
(* Properties of two nodes whose store callbacks overlap (SpecOverlap).    *)
(***************************************************************************)
\* the agent-state-update events node n emitted in the step (the passing
\* of time emits none)
EventsOf(n) ==
  IF now' # now THEN {} ELSE {i \in 1..Len(emitted') : emitted'[i].node = n}

\* in the step, the callback that had read inFlight[n][i] compared it with
\* stateHash: an event with the hash of that state is emitted if and only
\* if the hash differs from stateHash or stateHash is unset
Compared(n, i) ==
  /\ inFlight'[n] = Without(inFlight[n], i)
  /\ EventsOf(n) # {}
        <=> (stateHash[n] = NoHash \/ HashOfState(inFlight[n][i]) # stateHash[n])
  /\ \A k \in EventsOf(n) : emitted'[k].state = HashOfState(inFlight[n][i])

\* C16: the sync agent emits an agent-state-update event when and only when
\* the hash of the terminal-ops state a store callback reloaded differs from
\* its stateHash (or stateHash is unset); hence no two consecutive events of
\* one sync agent carry the same state hash, also with several callbacks in
\* flight at once.
C16_PublishOnChange ==
  [][\A n \in Nodes :
       /\ Len(inFlight'[n]) < Len(inFlight[n])
            => \E i \in 1..Len(inFlight[n]) : Compared(n, i)
       /\ EventsOf(n) # {} => Len(inFlight'[n]) < Len(inFlight[n])
       /\ Cardinality(EventsOf(n)) <= 1
       /\ \A k \in EventsOf(n) :
             /\ emitted'[k].state # lastEvent[n]
             /\ emitted'[k].state = stateHash'[n]]_vars

\* node A emitted an event for a state that is not the one the store holds
\* now, while another of its callbacks is in flight
C16_Witness ==
  /\ Len(emitted) = 1
  /\ emitted[1].node = "A"
  /\ emitted[1].state # HashOfState(StateObject(terminalOps["A"]))
  /\ Len(inFlight["A"]) = 1

(***************************************************************************)
(* Properties of a node that is handed remote states (SpecRemote).         *)
(***************************************************************************)
\* the step called receiveRemoteState
RemoteStateCalled ==
  forged' # forged /\ handled'.content.type = "remote-state"

\* the terminal ops of the state handed over that are neither in the store
\* nor incomplete
OpsToFetch ==
  {o \in handled'.content.state.terminalOps :
     o \notin store["A"] /\ o \notin DOMAIN incompleteOps["A"]}

\* a terminal op handed over is held and fails acceptance
BadOps ==
  \E o \in handled'.content.state.terminalOps :
     /\ o \in store["A"]
     /\ o \notin DOMAIN incompleteOps["A"]
     /\ ~(ClassOf(o) \in AcceptedMutationOpClasses /\ TargetOf(o) = ObjHash)

\* the ops of a set that are not being fetched already: from the sender, or
\* from two peers
NotYetFetching(S) ==
  {o \in S :
     /\ \A m \in incomingObjects["A"] :
           m.hash = o => m.endpoint # handled'.from
     /\ Cardinality({m \in incomingObjects["A"] : m.hash = o}) < 2}

\* the step sent the sender one request-objs message, for the ops of S with
\* empty dependency chains, or nothing if S is empty
RequestedExactly(S) ==
  IF S = {} THEN sent' = <<>>
  ELSE /\ Len(sent') = 1
       /\ IsRequestObjs(sent'[1])
       /\ sent'[1].to = handled'.from
       /\ RequestHashes(sent'[1].content.requestedObjects) = S
       /\ \A i \in 1..Len(sent'[1].content.requestedObjects) :
             sent'[1].content.requestedObjects[i].dependencyChain = <<>>

\* given a hash alone, request-state is sent to the sender iff the hash is
\* not stateHash, and the state is reported not new
HashAloneAnswered ==
  /\ ~handled'.content.isNew
  /\ IF handled'.content.hash # stateHash["A"]
     THEN /\ Len(sent') = 1
          /\ sent'[1].to = handled'.from
          /\ sent'[1].content.type = "request-state"
     ELSE sent' = <<>>

\* C17: given only a state hash, the sync agent sends request-state to the
\* sender iff the hash differs from stateHash, and reports not-new.  Given
\* the state object, it reports new iff at least one terminal op of the peer
\* is neither in the store nor incomplete and no held one fails acceptance;
\* it sends nothing when a held one fails acceptance; otherwise it requests,
\* with empty dependency chains, those of the ops to fetch that are not
\* being fetched already (from the sender, or from two peers).
C17_RemoteState ==
  [][RemoteStateCalled =>
       IF handled'.content.state = NoState THEN HashAloneAnswered
       ELSE IF HashOfState(handled'.content.state) # handled'.content.hash
       THEN ~handled'.content.isNew /\ sent' = <<>>
       ELSE /\ handled'.content.isNew <=> (OpsToFetch # {} /\ ~BadOps)
            /\ IF BadOps THEN sent' = <<>>
               ELSE RequestedExactly(NotYetFetching(OpsToFetch))]_vars

\* peer Y handed over the state of the ops a and b, of which b is held,
\* and was asked for a; the state was reported new
C17_Witness ==
  /\ handled.content.type = "remote-state"
  /\ handled.from = "Y"
  /\ handled.content.state = StateObject({"a", "b"})
  /\ handled.content.isNew
  /\ "b" \in store["A"]
  /\ Len(sent) = 1
  /\ IsRequestObjs(sent[1])
  /\ RequestHashes(sent[1].content.requestedObjects) = {"a"}

\* C17 as stated: given the state object, exactly the ops to fetch are
\* requested, whether or not they are being fetched already.
C17_Original ==
  [][(RemoteStateCalled /\ handled'.content.state # NoState
        /\ HashOfState(handled'.content.state) = handled'.content.hash
        /\ ~BadOps)
       => RequestedExactly(OpsToFetch)]_vars

(***************************************************************************)
(* Properties of a node that is gossiped full states (SpecFull).           *)
(***************************************************************************)
\* the entries of the send-full-state message handled that make the gossip
\* agent act: the agent is tracked, and the hash is neither the local one
\* nor in the cache of previous states
ActingEntries ==
  {i \in 1..Len(handled'.content.state) :
     /\ handled'.content.state[i].agentId \in TrackedAgentIds
     /\ handled'.content.state[i].hash # localState["A"]
     /\ handled'.content.state[i].hash \notin Range(previousStatesCache["A"])}

\* some peer's recorded remote state is the hash of entry i
Recorded(i) ==
  \E ep \in Endpoints : remoteState["A"][ep] = handled'.content.state[i].hash

\* the step sent k request-state-object messages, all to the sender of the
\* message handled and for the sync agent
StateObjectRequests(k) ==
  /\ Cardinality({j \in 1..Len(sent') :
                    sent'[j].content.type = "request-state-object"}) = k
  /\ \A j \in 1..Len(sent') :
        sent'[j].content.type = "request-state-object"
          => /\ sent'[j].to = handled'.from
             /\ sent'[j].content.agentId = SyncAgentId

NoRepeats(q) == \A i, j \in 1..Len(q) : q[i] = q[j] => i = j

\* the first k elements of a sequence, or all of them
FirstOf(q, k) == IF Len(q) > k THEN SubSeq(q, 1, k) ELSE q

\* C19: after any sequence of agent-state-update events the cache of
\* previous states holds at most maxCachedPrevStates hashes and none twice;
\* an event that supersedes the local hash puts it at the front, keeps the
\* other hashes in their order and, when the cache is full, drops the
\* oldest ones, those at the end.
C19_PrevStatesCache ==
  [][/\ Len(previousStatesCache'["A"]) <= MaxCachedPrevStates
     /\ NoRepeats(previousStatesCache'["A"])
     /\ IF localState'["A"] # localState["A"]
        THEN previousStatesCache'["A"] =
               <<localState["A"]>>
               \o FirstOf(SelectSeq(previousStatesCache["A"],
                                    LAMBDA h : h # localState["A"]),
                          MaxCachedPrevStates - 1)
        ELSE previousStatesCache'["A"] = previousStatesCache["A"]]_vars

\* the cache is full and the first states the agent left have been dropped
C19_Witness ==
  /\ Len(previousStatesCache["A"]) = MaxCachedPrevStates
  /\ NumberOf(localState["A"]) = MaxStates
  /\ \A h \in Range(previousStatesCache["A"]) : NumberOf(h) > 0
  /\ previousStatesCache["A"][1] = HashOfState(NumberedState(MaxStates - 1))

(***************************************************************************)
(* Errors of the sync layer (SpecObjects).                                 *)
(***************************************************************************)
\* C21: no error escapes the sync layer: a failure raised while validating,
\* rebuilding or saving a received object, or while delivering a remote
\* state, is caught inside the agent; no step leaves a rejected promise
\* without a handler.
C21_NoErrorEscapes == unhandled = {}

(***************************************************************************)
(* Store events across processes (SpecWorkers).                            *)
(***************************************************************************)
\* how often x occurs in the sequence q
Count(q, x) == Cardinality({i \in 1..Len(q) : q[i] = x})

\* the broadcast of the k-th literal stored has reached onmessage in q
Delivered(k, q) ==
  /\ stored[k].posted
  /\ \A i \in 1..Len(workers[q].inbox) : workers[q].inbox[i].literal # k

\* C22: for every literal stored through a WorkerSafeIdbBackend the store
\* callbacks fire exactly once in the storing process and, once its
\* broadcast is delivered, exactly once in each sibling process that shares
\* the database, and never twice anywhere, the process's own broadcast
\* notwithstanding; each process has drawn one broadcastId and opened one
\* channel if it has constructed a backend, however many, and none
\* otherwise.
C22_StoreEventsOnce ==
  /\ \A k \in 1..Len(stored) :
        /\ Count(workers[stored[k].proc].fired, <<stored[k].dbName, k>>) = 1
        /\ \A q \in Procs :
              Count(workers[q].fired, <<stored[k].dbName, k>>) <= 1
        /\ \A q \in stored[k].siblings :
              Delivered(k, q) =>
                Count(workers[q].fired, <<stored[k].dbName, k>>) = 1
  /\ \A p \in Procs :
        IF workers[p].backends = <<>>
        THEN workers[p].channels = 0 /\ workers[p].broadcastId = NoHash
        ELSE workers[p].channels = 1
             /\ workers[p].broadcastId = <<"broadcastId", p, 1>>

\* process P, with two backends, has stored a literal; Q and R share the
\* database; the broadcast has reached all three, P too
C22_Witness ==
  /\ Len(stored) = 1
  /\ stored[1].proc = "P" /\ stored[1].echoed
  /\ stored[1].siblings = {"Q", "R"}
  /\ Len(workers["P"].backends) = 2
  /\ \A q \in Procs : Delivered(1, q)

(***************************************************************************)
(* Undo cascade over sync (SpecUndo).                                      *)
(***************************************************************************)
\* the revocation, if a replica holds it
Revocations(r) == {o \in replicaOps[r] : o.kind = "remove-admin"}

Synchronized == replicaOps["local"] = replicaOps["remote"]

\* C23: once the two replicas have synchronized after the admin was
\* revoked, both report a user added before the revocation as a user and a
\* user added concurrently with it as not a user.
C23_UndoCascade ==
  Synchronized =>
    \A r \in Replicas, rev \in Revocations("local") :
      \A id \in Users :
        <<"add-user", id>> \in OpNames(replicaOps[r]) =>
          (IsUser(replicaOps[r], id) <=> <<"add-user", id>> \in rev.past)

\* the remote replica revoked the admin having seen U added; the local one
\* added U2 without having seen the revocation; they have synchronized
C23_Witness ==
  /\ Synchronized
  /\ \E rev \in Revocations("remote") :
        /\ <<"add-user", "U">> \in rev.past
        /\ <<"add-user", "U2">> \notin rev.past
  /\ \E o \in replicaOps["local"] :
        /\ o.kind = "add-user" /\ o.id = "U2"
        /\ <<"remove-admin", "A">> \notin o.past
  /\ IsUser(replicaOps["local"], "U") /\ ~IsUser(replicaOps["local"], "U2")
  /\ IsUser(replicaOps["remote"], "U") /\ ~IsUser(replicaOps["remote"], "U2")

\* C24: a new-peer event of the agent's peer group sends exactly one
\* send-full-state message, carrying the current map of agent ids to state
\* hashes, to the new peer; a new-peer event of another peer group sends
\* nothing; a lost-peer event of the agent's group leaves no remote state
\* of that endpoint.
C24_PeerEvents ==
  /\ handled.content.type = "new-peer" =>
       sent = IF handled.content.peerGroupId # PeerGroupId THEN <<>>
              ELSE <<[from |-> handled.to, to |-> handled.from,
                      agentId |-> GossipAgentId,
                      content |->
                        [type |-> "send-full-state",
                         state |-> <<StateEntry(SyncAgentId,
                                                localState[handled.to])>>]]>>
  /\ (handled.content.type = "lost-peer"
        /\ handled.content.peerGroupId = PeerGroupId) =>
       /\ remoteState[handled.to][handled.from] = NoHash
       /\ sent = <<>>

\* peer V, whose state was known, has left and joined again, and is sent
\* the state the node has reached since
C24_Witness ==
  /\ handled.content.type = "new-peer"
  /\ handled.content.peerGroupId = PeerGroupId
  /\ handled.from = "V"
  /\ remoteState["A"]["V"] = NoHash
  /\ localState["A"] # EmptyState
  /\ Len(sent) = 1

\* the pairs the reverse index of node n should hold: a missing object and
\* an incomplete op that misses it
MissingPairs(n) ==
  UNION {{<<d, o>> : d \in RequestHashes(incompleteOps[n][o].missingObjects)} :
           o \in DOMAIN incompleteOps[n]}

\* C25: opsForMissingObj holds the pair of an object and an op exactly when
\* the op is in incompleteOps and the object is among its missingObjects.
C25_ReverseIndex ==
  \A n \in Nodes : opsForMissingObj[n] = MissingPairs(n)

\* C26: an incomplete op whose last missing dependency has arrived is no
\* longer in incompleteOps when the step ends, and store.save was called for
\* it once.
C26_CompletionPersists ==
  \A i \in 1..Len(persisting.completed) :
     /\ persisting.completed[i] \notin DOMAIN incompleteOps[persisting.node]
     /\ Count(persisting.saveCalls, persisting.completed[i]) = 1

\* a request for an object the node does not hold, with a chain that is
\* not invalid, is recorded for the requester
DeferredRecorded ==
  (IsRequestObjs(handled) /\ handled.to = "A") =>
    \A req \in Range(handled.content.requestedObjects) :
       (req.hash \notin store["A"]
          /\ RequestVerdict(store["A"], req) # "invalid") =>
         \E m \in outgoingObjects["A"] :
            m.hash = req.hash /\ m.endpoint = handled.from

\* an object recorded for a peer and processed before the time allowed for
\* sending it has passed is sent to the peer under the secret recorded
DeferredSent ==
  \A m \in outgoingObjects["A"] :
     (m.hash \in Range(persisting.processed) /\ now <= m.timeout) =>
       \E i \in 1..Len(sent) :
          /\ sent[i].to = m.endpoint
          /\ IsSendObjs(sent[i])
          /\ m.hash \in Range(sent[i].content.sentObjects.rootHashes)
          /\ sent[i].content.ownershipProofSecret = m.secret

\* C27: a request, with a chain that is not invalid, for an object the node
\* does not hold is recorded in outgoingObjects for the requester; when the
\* object is received and processed before sendTimeout has passed, a
\* send-objs message with it is sent to the requester under the secret of
\* the request recorded.
C27_DeferredSending == DeferredRecorded /\ DeferredSent

\* the request req of the message handled was answered with the object
Served(req) ==
  \E i \in 1..Len(sent) :
     /\ IsSendObjs(sent[i])
     /\ sent[i].to = handled.from
     /\ req.hash \in Range(sent[i].content.sentObjects.rootHashes)

\* the chain of req, read from its first element to its last, starts at an
\* accepted op on ObjHash and descends to the requested hash through
\* literals of the store
ChainDescends(st, req) ==
  LET path == req.dependencyChain \o <<req.hash>>
  IN  /\ \A i \in 1..Len(path) : path[i] \in st
      /\ ShouldAcceptMutationOp(path[1])
      /\ \A i \in 1..(Len(path) - 1) : path[i + 1] \in DepHashes(path[i])

HandledInvalid ==
  /\ forged' # forged
  /\ IsSendObjs(handled')
  /\ IsForThisObject(handled'.content)
  /\ ~(/\ CheckRootHashes(FromLiteralContext(handled'.content.sentObjects))
       /\ CheckLiteralHashes(FromLiteralContext(handled'.content.sentObjects)))

\* C29: a send-objs message whose context fails validation is discarded as
\* a whole: no root is processed, nothing is saved, no message is sent, and
\* incomingObjects, incompleteOps and opsForMissingObj stay as they were.
C29_InvalidContextDiscarded ==
  [][HandledInvalid =>
       /\ persisting'.processed = <<>>
       /\ persisting'.saveCalls = <<>>
       /\ persisting'.completed = <<>>
       /\ unhandled' = {}
       /\ store' = store
       /\ terminalOps' = terminalOps
       /\ sent' = <<>>
       /\ incomingObjects' = incomingObjects
       /\ incompleteOps' = incompleteOps
       /\ opsForMissingObj' = opsForMissingObj]_vars

\* a message whose root b is expected from its sender under its secret,
\* with proofs, and whose context fails validation, has been handled
C29_Witness ==
  /\ IsSendObjs(handled)
  /\ ~(/\ CheckRootHashes(FromLiteralContext(handled.content.sentObjects))
       /\ CheckLiteralHashes(FromLiteralContext(handled.content.sentObjects)))
  /\ handled.content.omittedDeps # <<>>
  /\ \E m \in incomingObjects["A"] :
        /\ m.hash = "b"
        /\ m.hash \in Range(handled.content.sentObjects.rootHashes)
        /\ m.endpoint = handled.from
        /\ m.secret = handled.content.ownershipProofSecret

\* C30: an agent-state-update event with the state hash recorded in
\* localState pushes nothing onto previousStatesCache and sends no
\* send-state-object message.
C30_UnchangedStateSilent ==
  [][Republish("A") =>
       /\ previousStatesCache' = previousStatesCache
       /\ sent' = <<>>]_vars

(***************************************************************************)
(* Properties of a gossip agent that is told which agents to track         *)
(* (SpecTracking).                                                         *)
(***************************************************************************)
\* the last step handled a gossip message that carries a state of the
\* sync agent
CarriesState(msg) ==
  /\ msg.agentId = GossipAgentId
  /\ msg.content.type \in {"send-state-object", "send-full-state"}

\* C31: the gossip agent calls receiveRemoteState of a local agent for a
\* received state only if that agent is in trackedAgentIds: a
\* send-state-object or send-full-state message handled while the sync
\* agent is not tracked leads to no call of its receiveRemoteState.
C31_OnlyTrackedAgentsNotified ==
  (CarriesState(handled) /\ SyncAgentId \notin trackedAgentIds["A"])
    => notified.calls = 0

\* the last step was untrackAgentState for the sync agent, or handled the
\* event of its removal from the pod
ForgetsSyncAgent(msg) ==
  /\ msg.agentId = GossipAgentId
  /\ \/ msg.content.type = "untrack"
     \/ /\ msg.content.type = "agent-set-change"
        /\ msg.content.change = "removal"
  /\ msg.content.agentId = SyncAgentId

\* localState and localStateObjects have the same keys, all of them
\* tracked, and each hash is that of the object
LocalMapsAgree(n) ==
  /\ localState[n] # NoHash <=> localStateObjects[n] # NoState
  /\ localState[n] # NoHash => SyncAgentId \in trackedAgentIds[n]
  /\ localState[n] # NoHash => localState[n] = HashOfState(localStateObjects[n])

\* C34: localState and localStateObjects have the same key set, a subset
\* of trackedAgentIds, and localState[a] is the hash of
\* localStateObjects[a]; untrackAgentState and an agent-removal event
\* delete the agent's local hash, local object and cache of previous
\* states together.
C34_LocalMaps ==
  /\ [](\A n \in Nodes : LocalMapsAgree(n))
  /\ [][ForgetsSyncAgent(handled') =>
          /\ localState'["A"] = NoHash
          /\ localStateObjects'["A"] = NoState
          /\ previousStatesCache'["A"] = <<>>]_vars

\* the sync agent had published the state of a terminal op when the gossip
\* agent was told to forget it
C34_Witness ==
  /\ ForgetsSyncAgent(handled)
  /\ lastEvent["A"] # EmptyState
  /\ localState["A"] = NoHash

(***************************************************************************)
(* Properties of a gossip agent that validates state objects while its     *)
(* peers come and go (SpecValidation).                                     *)
(***************************************************************************)
\* the endpoints with an entry in remoteState or remoteStateObjects
RemoteEndpoints(n) ==
  {e \in Endpoints : \/ remoteState[n][e] # NoHash
                     \/ remoteStateObjects[n][e] # NoState}

\* C35: every endpoint with an entry in remoteState or remoteStateObjects
\* is a currently connected peer of the group, also when a lost-peer event
\* arrives while a state object from that peer is being validated, and
\* remoteState[e][a] is the hash of remoteStateObjects[e][a].
C35_RemoteMapsOfPeers ==
  /\ RemoteEndpoints("A") \subseteq peers["A"]
  /\ \A e \in RemoteEndpoints("A") :
        remoteState["A"][e] = HashOfState(remoteStateObjects["A"][e])

(***************************************************************************)
(* Properties of two connected nodes whose messages are all delivered      *)
(* (SpecFair).                                                             *)
(***************************************************************************)
\* a message that carries a state of the object
IsStateMessage(m) == m.content.type \in {"send-state-object", "send-state"}

\* no message that carries a state is in flight
NoStateTraffic ==
  \A pr \in Links : \A i \in 1..Len(net[pr]) : ~IsStateMessage(net[pr][i])

\* C32: quiescence of the state exchange.  Between two connected peers
\* that create no further ops, the exchange of send-state-object and
\* send-state messages stops after finitely many messages: the peers do not
\* answer each other's state objects with their own for ever, also while
\* one holds the other's terminal op as an incomplete op.
C32_StateExchangeStops == <>[]NoStateTraffic

(***************************************************************************)
(* Properties of two connected nodes whose store callbacks overlap         *)
(* (SpecOverlap), continued.                                               *)
(***************************************************************************)
\* no store callback of node n is pending or in flight
NoCallbackInFlight(n) == pendingCallbacks[n] = <<>> /\ inFlight[n] = <<>>

\* C33: once no store callback of a sync agent is in flight, its stateHash
\* is the hash of the terminal-ops state built from the terminalOps the
\* store holds, whatever the order in which overlapping store reads
\* completed.
C33_StateHashIsCurrent ==
  \A n \in Nodes :
     NoCallbackInFlight(n)
       => stateHash[n] = HashOfState(StateObject(terminalOps[n]))

DataHanded == [i \in 1..Len(conn.calls) |-> conn.calls[i].data]

C38_UndoOpTargets ==
  \A i \in 1..Len(constructed) :
     LET call == constructed[i]
     IN  /\ IsUndoOp(call.targetOp)
              => call.result.threw /\ call.result.op = Undefined
         /\ call.targetOp \in ReversibleOps
              => /\ ~call.result.threw
                 /\ IsUndoOp(call.result.op)
                 /\ call.result.op.prevOps = {call.targetOp}
                 /\ call.result.op.targetOp = call.targetOp
         /\ ~call.result.threw => ~IsUndoOp(call.result.op.targetOp)

\* an undo op was built for a reversible op, and the construction of an
\* undo op for it threw
C38_Witness ==
  \E i, j \in 1..Len(constructed) :
     /\ i < j
     /\ constructed[i].targetOp \in ReversibleOps
     /\ constructed[j].targetOp = constructed[i].result.op
     /\ constructed[j].result.threw

====
